---- MODULE Spec2Model ----
(***************************************************************************)
(* Model of the MakeMyTrip booking automation (src/main.py): the worklist  *)
(* read by GoogleSheetsManager.get_pending_bookings, load_booking_from_dict *)
(* and build_hotel_url, the main loop over the worklist,                   *)
(* process_single_booking with its fixed step sequence, the                *)
(* payment-confirmation polling loop of                                    *)
(* BookingPage.wait_for_payment_status on a discrete wall clock, the       *)
(* status classification and sheet updates of main, the prompts, browser   *)
(* session and final summary of main, single calls of the WaitHelpers,     *)
(* BasePage and BookingPage functions, and the update functions of         *)
(* GoogleSheetsManager, alone and between two reads of the same table.     *)
(***************************************************************************)
EXTENDS Integers, Sequences, FiniteSets, TLC

\* ------------------------------------------------------------------------
\* Bounds of the model
\* ------------------------------------------------------------------------
NumBookings == 2        \* length of the pending worklist
TicksPerSec == 2        \* clock resolution: ticks per second
MaxScan == 1            \* longest duration (ticks) of one locator scan
MaxOversleep == 1       \* longest overshoot (ticks) of one time.sleep

\* ------------------------------------------------------------------------
\* Program constants
\* ------------------------------------------------------------------------
PAYMENT_WAIT_TIMEOUT == 15
PAYMENT_CHECK_INTERVAL == 5

None == "None"
NoRet == [success |-> FALSE, message |-> "<no return>", payment_status |-> "<no return>",
          booking_id |-> None, price |-> None]
NoMessage == [text |-> None, secs |-> 0]
Never == -1

\* Python truthiness of an optional string
Truthy(x) == x \notin {None, ""}

\* int(time.time() - start_time): whole seconds of a duration in ticks
IntSec(ticks) == ticks \div TicksPerSec

\* a duration of s seconds, in ticks
Secs(s) == s * TicksPerSec

VARIABLES
    pc,                 \* position in main / process_single_booking
    i,                  \* enumerate index of the current booking (1-based)
    calls,              \* page-object calls of the current booking, with results
    shots,              \* labels of the screenshots extract_booking_id saved
    payment_status,     \* local of process_single_booking
    payment_message,    \* local of process_single_booking
    booking_id,         \* local of process_single_booking
    price,              \* local of process_single_booking
    ret,                \* 5-tuple returned by process_single_booking
    status,             \* status label derived by main
    results,            \* main's results list
    writes,             \* sheet updates main has requested, in call order
    wpc,                \* position inside wait_for_payment_status
    now,                \* wall clock (ticks)
    start_time,         \* local of wait_for_payment_status
    check_count,        \* local of wait_for_payment_status
    payment_confirmed,  \* local of wait_for_payment_status
    wret,               \* (status, message) returned by wait_for_payment_status
    page,               \* what the page shows: indicator element / keyword
    appearedAt,         \* clock value at which the first indicator appeared
    scanStart,          \* clock value at which the running scan started
    scanElem0,          \* indicator element present when the scan started
    wakeAt,             \* clock value at which the running sleep is due
    lastCheck,          \* clock value at which the last check started
    exitAt,             \* clock value at which the polling loop was left
    ideal,              \* no scan has taken time and no sleep has overshot
    raisedIn,           \* part of the polling loop in which an exception was raised
    df,                 \* GoogleSheetsManager.df: the rows of the sheet
    cols,               \* the optional columns the sheet has
    bookings,           \* list returned by get_pending_bookings
    Config,             \* the per-booking attributes of class Config
    hotel_url,          \* the URL build_hotel_url returned last
    built,              \* (inputs, URL) of the build_hotel_url calls so far
    loaded,             \* booking and dates of the last load_booking_from_dict
    today,              \* the run date
    driver,             \* the browser session of main: None, open or quit
    sessions,           \* number of browser sessions created so far
    answers,            \* main's locals sheet_url and confirm, once assigned
    summary,            \* the counts of main's final summary, once computed
    worksheet,          \* GoogleSheetsManager.worksheet: None or a handle
    call,               \* the library function under call and its arguments
    trace,              \* interactions the call under way has made, in order
    fret                \* outcome of the call: a return value or "raised"

flowVars == <<pc, i, calls, shots, payment_status, payment_message, booking_id,
              price, ret, status, results, writes>>
waitVars == <<wpc, now, start_time, check_count, payment_confirmed, wret, page,
              appearedAt, scanStart, scanElem0, wakeAt, lastCheck, exitAt, ideal,
              raisedIn>>
sheetVars == <<df, cols, bookings>>
cfgVars == <<Config, hotel_url, built, loaded, today>>
sessVars == <<driver, sessions, answers, summary>>
libVars == <<worksheet, call, trace, fret>>
vars == <<pc, i, calls, shots, payment_status, payment_message, booking_id,
          price, ret, status, results, writes, wpc, now, start_time, check_count,
          payment_confirmed, wret, page, appearedAt, scanStart, scanElem0,
          wakeAt, lastCheck, exitAt, ideal, raisedIn, df, cols, bookings, Config,
          hotel_url, built, loaded, today, driver, sessions, answers, summary,
          worksheet, call, trace, fret>>

\* ------------------------------------------------------------------------
\* Text: Python strings are sequences of one-character strings
\* ------------------------------------------------------------------------
UpperCase == <<"A", "B", "C", "D", "E", "F", "G", "H", "I", "J", "K", "L", "M",
               "N", "O", "P", "Q", "R", "S", "T", "U", "V", "W", "X", "Y", "Z">>
LowerCase == <<"a", "b", "c", "d", "e", "f", "g", "h", "i", "j", "k", "l", "m",
               "n", "o", "p", "q", "r", "s", "t", "u", "v", "w", "x", "y", "z">>
DigitChars == <<"0", "1", "2", "3", "4", "5", "6", "7", "8", "9">>

LowerChar(c) ==
    IF \E k \in 1..26 : UpperCase[k] = c
      THEN LowerCase[CHOOSE k \in 1..26 : UpperCase[k] = c]
      ELSE c

UpperChar(c) ==
    IF \E k \in 1..26 : LowerCase[k] = c
      THEN UpperCase[CHOOSE k \in 1..26 : LowerCase[k] = c]
      ELSE c

\* str.lower()
Lower(s) == [k \in 1..Len(s) |-> LowerChar(s[k])]

\* str.upper()
Upper(s) == [k \in 1..Len(s) |-> UpperChar(s[k])]

\* str.strip()
Strip(s) ==
    LET keep == {k \in 1..Len(s) : s[k] # " "}
    IN  IF keep = {} THEN <<>>
        ELSE SubSeq(s, CHOOSE k \in keep : \A j \in keep : k <= j,
                       CHOOSE k \in keep : \A j \in keep : k >= j)

RECURSIVE Digits(_)
Digits(n) ==
    IF n < 10 THEN <<DigitChars[n + 1]>>
    ELSE Digits(n \div 10) \o <<DigitChars[(n % 10) + 1]>>

\* str(n) of an integer
IntToStr(n) == IF n < 0 THEN <<"-">> \o Digits(0 - n) ELSE Digits(n)

\* ------------------------------------------------------------------------
\* GoogleSheetsManager: the DataFrame and get_pending_bookings
\* ------------------------------------------------------------------------
NumRows == 2            \* most rows of the sheet

\* a cell of the DataFrame: NaN (empty cell of the CSV), text or integer
NaNCell == [t |-> "nan", s |-> <<>>, n |-> 0]
StrCell(s) == [t |-> "str", s |-> s, n |-> 0]
IntCell(n) == [t |-> "int", s |-> <<>>, n |-> n]

\* str(cell): NaN values become the string 'nan'
PyStr(cell) ==
    CASE cell.t = "nan" -> <<"n", "a", "n">>
      [] cell.t = "str" -> cell.s
      [] cell.t = "int" -> IntToStr(cell.n)

\* int(cell): raises ValueError for NaN and for text
PyInt(cell) ==
    IF cell.t = "int" THEN [ok |-> TRUE, v |-> cell.n] ELSE [ok |-> FALSE, v |-> 0]

DEFAULT_CHECKIN_DAYS == 7

\* the contents a sheet may have
StatusCells == {NaNCell, StrCell(<<" ", "P", "e", "n", "d", "i", "n", "g", " ">>),
                StrCell(<<"C", "o", "m", "p", "l", "e", "t", "e", "d">>)}
HotelCells == {NaNCell, StrCell(<<"1", "2", "3", "4", "5">>)}
CityCells == {NaNCell, StrCell(<<"d", "e", "l">>), StrCell(<<" ">>)}
NightsCells == {NaNCell, IntCell(2), IntCell(-1)}
GuestCell == StrCell(<<"A">>)

SheetRows ==
    [Status : StatusCells, HotelID : HotelCells, CityCode : CityCells,
     CheckIn : {IntCell(3)}, Nights : NightsCells, Adults : {IntCell(2)},
     Children : {IntCell(0)}, Rooms : {IntCell(1)}, FirstName : {GuestCell},
     LastName : {GuestCell}, Email : {GuestCell}, Mobile : {GuestCell},
     UpiId : {GuestCell}, Booking_id : {NaNCell}, Price : {NaNCell}]

\* variant: a status that starts with 'pending' counts as pending
StatusIsPending_Prefix(cell) ==
    \/ PyStr(cell) = <<"n", "a", "n">>
    \/ /\ Len(Strip(Lower(PyStr(cell)))) >= 7
       /\ SubSeq(Strip(Lower(PyStr(cell))), 1, 7)
            = <<"p", "e", "n", "d", "i", "n", "g">>

\* the Status test of the filter: 'nan' or 'pending' after lower().strip()
StatusIsPending(cell) ==
    \/ PyStr(cell) = <<"n", "a", "n">>
    \/ Strip(Lower(PyStr(cell))) = <<"p", "e", "n", "d", "i", "n", "g">>

\* pending = self.df[...] (all rows when there is no Status column)
InPendingFrame(columns, row) ==
    "Status" \in columns => StatusIsPending(row.Status)

\* row.get('MMT_HOTEL_ID', row.get('Hotel ID', '')): '' without the column
HotelIdText(columns, row) ==
    IF "Hotel ID" \in columns THEN Strip(PyStr(row.HotelID)) ELSE <<>>

\* the int(...) conversions of the booking dict succeed
RowConverts(row) ==
    /\ PyInt(row.Nights).ok
    /\ PyInt(row.Adults).ok
    /\ PyInt(row.Children).ok
    /\ PyInt(row.Rooms).ok

\* variant: the row number does not count the header row
RowBooking_NoHeader(columns, idx, row) ==
    [row_number |-> idx + 1,
     hotel_id |-> HotelIdText(columns, row),
     city_code |-> Upper(Strip(PyStr(row.CityCode))),
     checkin_days |-> IF PyInt(row.CheckIn).ok THEN PyInt(row.CheckIn).v
                      ELSE DEFAULT_CHECKIN_DAYS,
     nights |-> PyInt(row.Nights).v,
     adults |-> PyInt(row.Adults).v,
     children |-> PyInt(row.Children).v,
     rooms |-> PyInt(row.Rooms).v,
     first_name |-> Strip(PyStr(row.FirstName)),
     last_name |-> Strip(PyStr(row.LastName)),
     email |-> Strip(PyStr(row.Email)),
     mobile |-> Strip(PyStr(row.Mobile)),
     upi_id |-> Strip(PyStr(row.UpiId))]

\* the booking dict built for the row at DataFrame index idx
RowBooking(columns, idx, row) ==
    [row_number |-> idx + 2,
     hotel_id |-> HotelIdText(columns, row),
     city_code |-> Upper(Strip(PyStr(row.CityCode))),
     checkin_days |-> IF PyInt(row.CheckIn).ok THEN PyInt(row.CheckIn).v
                      ELSE DEFAULT_CHECKIN_DAYS,
     nights |-> PyInt(row.Nights).v,
     adults |-> PyInt(row.Adults).v,
     children |-> PyInt(row.Children).v,
     rooms |-> PyInt(row.Rooms).v,
     first_name |-> Strip(PyStr(row.FirstName)),
     last_name |-> Strip(PyStr(row.LastName)),
     email |-> Strip(PyStr(row.Email)),
     mobile |-> Strip(PyStr(row.Mobile)),
     upi_id |-> Strip(PyStr(row.UpiId))]

\* if booking['hotel_id'] and booking['city_code']
BookingIsValid(b) == b.hotel_id # <<>> /\ b.city_code # <<>>

\* the row at index idx contributes a booking
RowYieldsBooking(columns, idx, row) ==
    /\ InPendingFrame(columns, row)
    /\ RowConverts(row)
    /\ BookingIsValid(RowBooking(columns, idx, row))

RECURSIVE PendingFrom(_, _, _)
PendingFrom(columns, frame, k) ==
    IF k > Len(frame) THEN <<>>
    ELSE (IF RowYieldsBooking(columns, k - 1, frame[k])
            THEN <<RowBooking(columns, k - 1, frame[k])>>
            ELSE <<>>) \o PendingFrom(columns, frame, k + 1)

\* self.df['Status'] = self.df['Status'].astype(str)
StatusAsStr(columns, frame) ==
    IF "Status" \in columns
      THEN [k \in 1..Len(frame) |->
              [frame[k] EXCEPT !.Status = StrCell(PyStr(frame[k].Status))]]
      ELSE frame

\* get_pending_bookings()
GetPendingBookings ==
    /\ pc = "get_pending_bookings"
    /\ IF Len(df) = 0
         THEN /\ bookings' = <<>>
              /\ df' = df
         ELSE /\ bookings' = PendingFrom(cols, df, 1)
              /\ df' = StatusAsStr(cols, df)
    /\ pc' = "got_pending_bookings"
    /\ UNCHANGED <<i, calls, shots, payment_status, payment_message, booking_id,
                   price, ret, status, results, writes>>
    /\ UNCHANGED cols
    /\ UNCHANGED <<waitVars, cfgVars>>
    /\ UNCHANGED <<sessVars, libVars>>

\* a second get_pending_bookings() on the same manager, after update_status
GetPendingAgain ==
    /\ pc = "got_pending_bookings"
    /\ call.fn = "update_status"
    /\ IF Len(df) = 0
         THEN /\ bookings' = <<>>
              /\ df' = df
         ELSE /\ bookings' = PendingFrom(cols, df, 1)
              /\ df' = StatusAsStr(cols, df)
    /\ pc' = "got_pending_again"
    /\ UNCHANGED <<i, calls, shots, payment_status, payment_message, booking_id,
                   price, ret, status, results, writes>>
    /\ UNCHANGED cols
    /\ UNCHANGED <<waitVars, cfgVars>>
    /\ UNCHANGED <<sessVars, libVars>>

\* ------------------------------------------------------------------------
\* Config, load_booking_from_dict and build_hotel_url
\* ------------------------------------------------------------------------
MaxBuilds == 2          \* most build_hotel_url calls recorded in one run

\* dates are records [y, m, d]
IsLeap(y) == (y % 4 = 0 /\ y % 100 # 0) \/ y % 400 = 0

DaysInMonth(y, m) ==
    IF m = 2 THEN (IF IsLeap(y) THEN 29 ELSE 28)
    ELSE IF m \in {4, 6, 9, 11} THEN 30 ELSE 31

NextDay(dt) ==
    IF dt.d < DaysInMonth(dt.y, dt.m) THEN [dt EXCEPT !.d = dt.d + 1]
    ELSE IF dt.m < 12 THEN [y |-> dt.y, m |-> dt.m + 1, d |-> 1]
    ELSE [y |-> dt.y + 1, m |-> 1, d |-> 1]

PrevDay(dt) ==
    IF dt.d > 1 THEN [dt EXCEPT !.d = dt.d - 1]
    ELSE IF dt.m > 1 THEN [y |-> dt.y, m |-> dt.m - 1,
                           d |-> DaysInMonth(dt.y, dt.m - 1)]
    ELSE [y |-> dt.y - 1, m |-> 12, d |-> 31]

\* dt + timedelta(days=n)
RECURSIVE AddDays(_, _)
AddDays(dt, n) ==
    IF n = 0 THEN dt
    ELSE IF n > 0 THEN AddDays(NextDay(dt), n - 1)
    ELSE AddDays(PrevDay(dt), n + 1)

Pad2(n) == IF n < 10 THEN <<"0">> \o Digits(n) ELSE Digits(n)

\* dt.strftime("%m%d%Y")
StrfMDY(dt) == Pad2(dt.m) \o Pad2(dt.d) \o Digits(dt.y)

NoDate == [y |-> 0, m |-> 0, d |-> 0]

\* class Config before any booking is loaded
ConfigNone ==
    [HOTEL_ID |-> None, CITY_CODE |-> None, CHECKIN_DATE |-> None,
     CHECKOUT_DATE |-> None, ADULTS |-> None, CHILDREN |-> None, ROOMS |-> None,
     GUEST_FIRST_NAME |-> None, GUEST_LAST_NAME |-> None, GUEST_EMAIL |-> None,
     GUEST_MOBILE |-> None, UPI_ID |-> None]

NotLoaded ==
    [row_number |-> 0, checkin_days |-> 0, nights |-> 0, checkin |-> NoDate,
     checkout |-> NoDate]

\* checkin = datetime.now() + timedelta(days=checkin_days)
CheckinOf(b, runDate) == AddDays(runDate, b.checkin_days)

\* variant: the check-out date is counted from the run date
CheckoutOf_FromRunDate(b, runDate) == AddDays(runDate, b.nights)

\* checkout = checkin + timedelta(days=nights)
CheckoutOf(b, runDate) == AddDays(CheckinOf(b, runDate), b.nights)

\* variant: the guest's first name is assigned only while it is unset
LoadedConfig_KeepsGuest(b, runDate) ==
    [HOTEL_ID |-> b.hotel_id, CITY_CODE |-> b.city_code,
     CHECKIN_DATE |-> StrfMDY(CheckinOf(b, runDate)),
     CHECKOUT_DATE |-> StrfMDY(CheckoutOf(b, runDate)),
     ADULTS |-> b.adults, CHILDREN |-> b.children, ROOMS |-> b.rooms,
     GUEST_FIRST_NAME |-> IF loaded = NotLoaded THEN b.first_name
                          ELSE Config.GUEST_FIRST_NAME,
     GUEST_LAST_NAME |-> b.last_name,
     GUEST_EMAIL |-> b.email, GUEST_MOBILE |-> b.mobile, UPI_ID |-> b.upi_id]

\* the class attributes load_booking_from_dict assigns
LoadedConfig(b, runDate) ==
    [HOTEL_ID |-> b.hotel_id, CITY_CODE |-> b.city_code,
     CHECKIN_DATE |-> StrfMDY(CheckinOf(b, runDate)),
     CHECKOUT_DATE |-> StrfMDY(CheckoutOf(b, runDate)),
     ADULTS |-> b.adults, CHILDREN |-> b.children, ROOMS |-> b.rooms,
     GUEST_FIRST_NAME |-> b.first_name, GUEST_LAST_NAME |-> b.last_name,
     GUEST_EMAIL |-> b.email, GUEST_MOBILE |-> b.mobile, UPI_ID |-> b.upi_id]

\* the pair load_booking_from_dict returns, with the booking it was called for
LoadedDates(b, runDate) ==
    [row_number |-> b.row_number, checkin_days |-> b.checkin_days,
     nights |-> b.nights, checkin |-> CheckinOf(b, runDate),
     checkout |-> CheckoutOf(b, runDate), booking |-> b]

\* variant: the room qualifier starts with the room count
RoomQualifier_WithRooms(cfg) ==
    IntToStr(cfg.ROOMS) \o <<"e">> \o IntToStr(cfg.ADULTS) \o <<"e">>
      \o IntToStr(cfg.CHILDREN) \o <<"e">>

\* room_qualifier = f"{Config.ADULTS}e{Config.CHILDREN}e"
RoomQualifier(cfg) == IntToStr(cfg.ADULTS) \o <<"e">> \o IntToStr(cfg.CHILDREN) \o <<"e">>

\* rsc = f"{Config.ROOMS}e{Config.ADULTS}e{Config.CHILDREN}e"
Rsc(cfg) ==
    IntToStr(cfg.ROOMS) \o <<"e">> \o IntToStr(cfg.ADULTS) \o <<"e">>
      \o IntToStr(cfg.CHILDREN) \o <<"e">>

\* variant: the URL carries the guest's first name
BuildUrl_WithGuest(cfg) ==
    [base |-> "https://www.makemytrip.com/hotels/hotel-details/",
     query |-> << [k |-> "hotelId", v |-> cfg.HOTEL_ID],
                  [k |-> "_uCurrency", v |-> <<"I", "N", "R">>],
                  [k |-> "checkin", v |-> cfg.CHECKIN_DATE],
                  [k |-> "checkout", v |-> cfg.CHECKOUT_DATE],
                  [k |-> "city", v |-> cfg.CITY_CODE],
                  [k |-> "country", v |-> <<"I", "N">>],
                  [k |-> "locusId", v |-> cfg.CITY_CODE],
                  [k |-> "locusType", v |-> <<"c", "i", "t", "y">>],
                  [k |-> "roomStayQualifier", v |-> RoomQualifier(cfg)],
                  [k |-> "rsc", v |-> Rsc(cfg)],
                  [k |-> "guest", v |-> cfg.GUEST_FIRST_NAME] >>]

\* build_hotel_url(): the base and the query parameters in order
BuildUrl(cfg) ==
    [base |-> "https://www.makemytrip.com/hotels/hotel-details/",
     query |-> << [k |-> "hotelId", v |-> cfg.HOTEL_ID],
                  [k |-> "_uCurrency", v |-> <<"I", "N", "R">>],
                  [k |-> "checkin", v |-> cfg.CHECKIN_DATE],
                  [k |-> "checkout", v |-> cfg.CHECKOUT_DATE],
                  [k |-> "city", v |-> cfg.CITY_CODE],
                  [k |-> "country", v |-> <<"I", "N">>],
                  [k |-> "locusId", v |-> cfg.CITY_CODE],
                  [k |-> "locusType", v |-> <<"c", "i", "t", "y">>],
                  [k |-> "roomStayQualifier", v |-> RoomQualifier(cfg)],
                  [k |-> "rsc", v |-> Rsc(cfg)] >>]

NoUrl == [base |-> None, query |-> <<>>]

\* the values the URL is specified to depend on
UrlInputs(cfg) ==
    [hotel |-> cfg.HOTEL_ID, checkin |-> cfg.CHECKIN_DATE,
     checkout |-> cfg.CHECKOUT_DATE, city |-> cfg.CITY_CODE,
     adults |-> cfg.ADULTS, children |-> cfg.CHILDREN, rooms |-> cfg.ROOMS]

\* one build_hotel_url call: the Config values it ran with and its result
BuildRecord(cfg) ==
    [in |-> UrlInputs(cfg), guest |-> cfg.GUEST_FIRST_NAME, url |-> BuildUrl(cfg)]

\* the bookings and run dates the two functions are exercised with
RunDates == {[y |-> 2026, m |-> 12, d |-> 30], [y |-> 2028, m |-> 2, d |-> 27]}

Occupancies ==
    {[rooms |-> 1, adults |-> 2, children |-> 0],
     [rooms |-> 2, adults |-> 3, children |-> 1],
     [rooms |-> 1, adults |-> 1, children |-> 2]}

Stays ==
    {[checkin_days |-> 0, nights |-> 0], [checkin_days |-> 0, nights |-> 1],
     [checkin_days |-> 3, nights |-> 2]}

BookingInputs ==
    {[row_number |-> 2, hotel_id |-> <<"1", "2", "3", "4", "5">>,
      city_code |-> <<"D", "E", "L">>, checkin_days |-> stay.checkin_days,
      nights |-> stay.nights,
      adults |-> occ.adults, children |-> occ.children, rooms |-> occ.rooms,
      first_name |-> name, last_name |-> <<"A">>, email |-> <<"A">>,
      mobile |-> <<"A">>, upi_id |-> <<"A">>] :
        stay \in Stays, occ \in Occupancies,
        name \in {<<"A">>, <<"B">>}}

\* load_booking_from_dict(b)
LoadBookingFromDict ==
    /\ pc = "url"
    /\ \E b \in BookingInputs :
         /\ Config' = LoadedConfig(b, today)
         /\ loaded' = LoadedDates(b, today)
    /\ UNCHANGED <<hotel_url, built, today>>
    /\ UNCHANGED <<flowVars, waitVars, sheetVars>>
    /\ UNCHANGED <<sessVars, libVars>>

\* build_hotel_url(), after some booking was loaded
BuildHotelUrl ==
    /\ pc = "url"
    /\ loaded # NotLoaded
    /\ Len(built) < MaxBuilds
    /\ hotel_url' = BuildUrl(Config)
    /\ built' = Append(built, BuildRecord(Config))
    /\ UNCHANGED <<Config, loaded, today>>
    /\ UNCHANGED <<flowVars, waitVars, sheetVars>>
    /\ UNCHANGED <<sessVars, libVars>>

\* ------------------------------------------------------------------------
\* process_single_booking: the gated steps 2-7
\* ------------------------------------------------------------------------
GatedSteps == <<"click_book_now", "enter_guest_details", "click_pay_now",
                "select_upi_payment", "enter_upi_id", "send_payment_request">>

\* where control goes when a gated step returned true
StepAfter(step) ==
    CASE step = "click_book_now" -> "enter_guest_details"
      [] step = "enter_guest_details" -> "click_pay_now"
      [] step = "click_pay_now" -> "select_upi_payment"
      [] step = "select_upi_payment" -> "enter_upi_id"
      [] step = "enter_upi_id" -> "send_payment_request"
      [] step = "send_payment_request" -> "wait_for_payment_status"

\* variant: the enter_upi_id failure message is the select_upi_payment one
StepFailureReturn_WrongMessage(step) ==
    [success |-> FALSE,
     message |-> CASE step = "click_book_now" -> "Skipped - Book Now button not found"
                   [] step = "enter_guest_details" -> "Failed to enter guest details"
                   [] step = "click_pay_now" -> "Pay Now button not found"
                   [] step = "select_upi_payment" -> "UPI option not found"
                   [] step = "enter_upi_id" -> "UPI option not found"
                   [] step = "send_payment_request" -> "Failed to send payment request",
     payment_status |-> IF step = "click_book_now" THEN "skipped" ELSE None,
     booking_id |-> None, price |-> None]

\* variant: a false click_pay_now is reported as skipped, like click_book_now
StepFailureReturn_PayNowSkipped(step) ==
    [success |-> FALSE,
     message |-> CASE step = "click_book_now" -> "Skipped - Book Now button not found"
                   [] step = "enter_guest_details" -> "Failed to enter guest details"
                   [] step = "click_pay_now" -> "Pay Now button not found"
                   [] step = "select_upi_payment" -> "UPI option not found"
                   [] step = "enter_upi_id" -> "Failed to enter UPI ID"
                   [] step = "send_payment_request" -> "Failed to send payment request",
     payment_status |-> IF step \in {"click_book_now", "click_pay_now"}
                          THEN "skipped" ELSE None,
     booking_id |-> None, price |-> None]

\* the tuple process_single_booking returns when a gated step returned false
StepFailureReturn(step) ==
    CASE step = "click_book_now" ->
            [success |-> FALSE, message |-> "Skipped - Book Now button not found",
             payment_status |-> "skipped", booking_id |-> None, price |-> None]
      [] step = "enter_guest_details" ->
            [success |-> FALSE, message |-> "Failed to enter guest details",
             payment_status |-> None, booking_id |-> None, price |-> None]
      [] step = "click_pay_now" ->
            [success |-> FALSE, message |-> "Pay Now button not found",
             payment_status |-> None, booking_id |-> None, price |-> None]
      [] step = "select_upi_payment" ->
            [success |-> FALSE, message |-> "UPI option not found",
             payment_status |-> None, booking_id |-> None, price |-> None]
      [] step = "enter_upi_id" ->
            [success |-> FALSE, message |-> "Failed to enter UPI ID",
             payment_status |-> None, booking_id |-> None, price |-> None]
      [] step = "send_payment_request" ->
            [success |-> FALSE, message |-> "Failed to send payment request",
             payment_status |-> None, booking_id |-> None, price |-> None]

\* the tuple returned by the except clause of process_single_booking
ExceptionReturn ==
    [success |-> FALSE, message |-> "str(e)", payment_status |-> "error",
     booking_id |-> None, price |-> None]

\* variant: the result of enter_upi_id is not tested
GatedStep_IgnoresUpiFailure(step, ok) ==
    /\ pc = step
    /\ calls' = Append(calls, [step |-> step, ok |-> ok])
    /\ IF ok \/ step = "enter_upi_id"
         THEN /\ pc' = StepAfter(step)
              /\ ret' = ret
         ELSE /\ pc' = "classify"
              /\ ret' = StepFailureReturn(step)
    /\ UNCHANGED <<i, shots, payment_status, payment_message, booking_id, price,
                   status, results, writes>>
    /\ UNCHANGED waitVars
    /\ UNCHANGED <<sheetVars, cfgVars>>
    /\ UNCHANGED <<sessVars, libVars>>

\* `if not page.step(): return ...` for one gated step whose call returned ok
GatedStep(step, ok) ==
    /\ pc = step
    /\ calls' = Append(calls, [step |-> step, ok |-> ok])
    /\ IF ok
         THEN /\ pc' = StepAfter(step)
              /\ ret' = ret
         ELSE /\ pc' = "classify"
              /\ ret' = StepFailureReturn(step)
    /\ UNCHANGED <<i, shots, payment_status, payment_message, booking_id, price,
                   status, results, writes>>
    /\ UNCHANGED waitVars
    /\ UNCHANGED <<sheetVars, cfgVars>>
    /\ UNCHANGED <<sessVars, libVars>>

\* the pending worklist of a run of main: NumBookings valid bookings
Worklist ==
    [k \in 1..NumBookings |->
       [row_number |-> 2 * k, hotel_id |-> <<"1", "2", "3", "4", "5">>,
        city_code |-> <<"D", "E", "L">>, checkin_days |-> DEFAULT_CHECKIN_DAYS,
        nights |-> k, adults |-> 2, children |-> 0, rooms |-> 1,
        first_name |-> <<"A">>, last_name |-> <<"A">>, email |-> <<"A">>,
        mobile |-> <<"A">>, upi_id |-> <<"A">>]]

\* the run date of a run of main
Today == [y |-> 2026, m |-> 12, d |-> 30]

\* variant: the loop stops after a booking that did not succeed
LoopExhausted_BreakOnFailure ==
    \/ i >= Len(bookings)
    \/ Len(results) > 0 /\ ~results[Len(results)].success

\* variant: the loop is left after its first booking
LoopExhausted_AfterFirst == i >= 1

\* `for i, booking in enumerate(bookings, 1)` has no booking left
LoopExhausted == i >= Len(bookings)

\* the sheet URL used throughout the model
SHEET_URL == <<"u">>

\* what the user may type at a prompt of main, and what SHEET_URL of the
\* environment may hold
UrlsTyped == {<<>>, <<" ">>, SHEET_URL}
DefaultUrls == {<<>>, SHEET_URL}
ConfirmsTyped == {<<"y", "e", "s">>, <<" ", "Y", " ">>, <<"n", "o">>, <<>>}

\* variant: any non-empty answer confirms the run
Confirmed_AnyAnswer(confirm) == confirm # <<>>

\* `confirm not in ['yes', 'y']` is false
Confirmed(confirm) == confirm \in {<<"y", "e", "s">>, <<"y">>}

\* main's locals before the first prompt
NotAsked == [asked |-> FALSE]

\* main's locals when the run was confirmed
Answered == [sheet_url |-> SHEET_URL, confirm |-> <<"y", "e", "s">>]

\* the summary is not computed yet
NoSummary == [computed |-> FALSE]

\* main up to the browser setup: it returns early when no sheet URL is given,
\* when get_pending_bookings returned nothing, or when the run is not confirmed
MainStart ==
    /\ pc = "main"
    /\ \E typed \in UrlsTyped, default_url \in DefaultUrls, answer \in ConfirmsTyped :
         LET stripped == Strip(typed)
             sheet_url == IF stripped = <<>> THEN default_url ELSE stripped
             confirm == Lower(Strip(answer))
         IN  IF sheet_url = <<>> \/ Len(bookings) = 0
               THEN /\ answers' = [sheet_url |-> sheet_url]
                    /\ pc' = "returned"
               ELSE /\ answers' = [sheet_url |-> sheet_url, confirm |-> confirm]
                    /\ pc' = IF Confirmed(confirm) THEN "setup_driver"
                                                  ELSE "returned"
    /\ UNCHANGED <<driver, sessions, summary>>
    /\ UNCHANGED libVars
    /\ UNCHANGED <<i, calls, shots, payment_status, payment_message, booking_id,
                   price, ret, status, results, writes>>
    /\ UNCHANGED waitVars
    /\ UNCHANGED <<sheetVars, cfgVars>>

\* driver = setup_driver_with_scrapingbee(USE_PROXY_FLAG): webdriver.Chrome
\* creates the session (or raises); implicitly_wait, set_page_load_timeout and
\* maximize_window follow and may raise with the session open; an exception
\* leaves main, which has no handler
SetupDriver ==
    /\ pc = "setup_driver"
    /\ \E created \in BOOLEAN, configured \in BOOLEAN :
         /\ driver' = IF created THEN "open" ELSE driver
         /\ sessions' = IF created THEN sessions + 1 ELSE sessions
         /\ pc' = IF created /\ configured THEN "for" ELSE "raised"
    /\ UNCHANGED <<answers, summary>>
    /\ UNCHANGED <<i, calls, shots, payment_status, payment_message, booking_id,
                   price, ret, status, results, writes>>
    /\ UNCHANGED waitVars
    /\ UNCHANGED <<sheetVars, cfgVars>>
    /\ UNCHANGED libVars

\* main: the for loop takes the next booking
MainFor ==
    /\ pc = "for"
    /\ ~LoopExhausted
    /\ i' = i + 1
    /\ pc' = "open_hotel_page"
    /\ calls' = <<>>
    /\ shots' = <<>>
    /\ payment_status' = None
    /\ payment_message' = NoMessage
    /\ booking_id' = None
    /\ price' = None
    /\ ret' = NoRet
    /\ status' = None
    /\ UNCHANGED <<results, writes>>
    /\ UNCHANGED waitVars
    /\ UNCHANGED <<sheetVars, cfgVars>>
    /\ UNCHANGED <<sessVars, libVars>>

\* load_booking_from_dict(booking), build_hotel_url(), driver.get(hotel_url);
\* driver.get may raise
OpenHotelPage ==
    /\ pc = "open_hotel_page"
    /\ Config' = LoadedConfig(bookings[i], today)
    /\ loaded' = LoadedDates(bookings[i], today)
    /\ hotel_url' = BuildUrl(LoadedConfig(bookings[i], today))
    /\ built' = Append(built, BuildRecord(LoadedConfig(bookings[i], today)))
    /\ \E ok \in BOOLEAN :
         IF ok
           THEN /\ pc' = "click_book_now"
                /\ ret' = ret
           ELSE /\ pc' = "classify"
                /\ ret' = ExceptionReturn
    /\ UNCHANGED <<i, calls, shots, payment_status, payment_message, booking_id,
                   price, status, results, writes>>
    /\ UNCHANGED waitVars
    /\ UNCHANGED <<sheetVars, today>>
    /\ UNCHANGED <<sessVars, libVars>>

ClickBookNow == \E ok \in BOOLEAN : GatedStep("click_book_now", ok)
EnterGuestDetails == \E ok \in BOOLEAN : GatedStep("enter_guest_details", ok)
ClickPayNow == \E ok \in BOOLEAN : GatedStep("click_pay_now", ok)
SelectUpiPayment == \E ok \in BOOLEAN : GatedStep("select_upi_payment", ok)
EnterUpiId == \E ok \in BOOLEAN : GatedStep("enter_upi_id", ok)
SendPaymentRequest == \E ok \in BOOLEAN : GatedStep("send_payment_request", ok)

\* ------------------------------------------------------------------------
\* BookingPage.wait_for_payment_status on a discrete clock
\* ------------------------------------------------------------------------
WaitIdle ==
    /\ wpc = "idle" /\ now = 0 /\ start_time = 0 /\ check_count = 0
    /\ payment_confirmed = FALSE
    /\ wret = [status |-> None, message |-> NoMessage]
    /\ page = [elem |-> FALSE, kw |-> FALSE]
    /\ appearedAt = Never /\ scanStart = 0 /\ scanElem0 = FALSE /\ wakeAt = 0
    /\ lastCheck = Never /\ exitAt = Never /\ ideal = TRUE
    /\ raisedIn = None

\* the locals of a finished call are dropped
WaitReset ==
    /\ wpc' = "idle" /\ now' = 0 /\ start_time' = 0 /\ check_count' = 0
    /\ payment_confirmed' = FALSE
    /\ wret' = [status |-> None, message |-> NoMessage]
    /\ page' = [elem |-> FALSE, kw |-> FALSE]
    /\ appearedAt' = Never /\ scanStart' = 0 /\ scanElem0' = FALSE /\ wakeAt' = 0
    /\ lastCheck' = Never /\ exitAt' = Never /\ ideal' = TRUE
    /\ raisedIn' = None

\* variant: the loop test is <= instead of <
LoopContinues_Inclusive(elapsedTicks) == elapsedTicks <= Secs(PAYMENT_WAIT_TIMEOUT)

\* while (time.time() - start_time) < Config.PAYMENT_WAIT_TIMEOUT
LoopContinues(elapsedTicks) == elapsedTicks < Secs(PAYMENT_WAIT_TIMEOUT)

\* the (status, message) pair built after the loop
WaitResult(confirmed, elapsed) ==
    IF confirmed
      THEN [status |-> "success",
            message |-> [text |-> "Payment confirmed in {elapsed} seconds",
                         secs |-> elapsed]]
      ELSE [status |-> "timeout",
            message |-> [text |-> "Waited {PAYMENT_WAIT_TIMEOUT} seconds - status unknown",
                         secs |-> PAYMENT_WAIT_TIMEOUT]]

\* the pair built by the except clause of wait_for_payment_status
WaitErrorResult ==
    [status |-> "error",
     message |-> [text |-> "Error while waiting: str(e)", secs |-> 0]]

\* variant: the loop sleeps one second between checks
SleepUntil_OneSecond(t) == t + Secs(1)

\* the instant the next sleep is due: time.sleep(Config.PAYMENT_CHECK_INTERVAL)
SleepUntil(t) == t + Secs(PAYMENT_CHECK_INTERVAL)

\* entry: start_time = time.time(); check_count = 0; payment_confirmed = False
WaitBegin ==
    /\ pc = "wait_for_payment_status"
    /\ wpc = "idle"
    /\ calls' = Append(calls, [step |-> "wait_for_payment_status", ok |-> TRUE])
    /\ start_time' = now
    /\ check_count' = 0
    /\ payment_confirmed' = FALSE
    /\ wpc' = "cond"
    /\ UNCHANGED <<pc, i, shots, payment_status, payment_message, booking_id,
                   price, ret, status, results, writes>>
    /\ UNCHANGED <<now, wret, page, appearedAt, scanStart, scanElem0, wakeAt,
                   lastCheck, exitAt, ideal, raisedIn>>
    /\ UNCHANGED <<sheetVars, cfgVars>>
    /\ UNCHANGED <<sessVars, libVars>>

\* the loop test; when it holds a check starts: check_count += 1 and the
\* scan of PAYMENT_SUCCESS_INDICATORS begins
WaitLoopTest ==
    /\ wpc = "cond"
    /\ IF LoopContinues(now - start_time)
         THEN /\ check_count' = check_count + 1
              /\ wpc' = "scan"
              /\ scanStart' = now
              /\ scanElem0' = page.elem
              /\ lastCheck' = now
              /\ exitAt' = exitAt
         ELSE /\ wpc' = "after"
              /\ exitAt' = now
              /\ UNCHANGED <<check_count, scanStart, scanElem0, lastCheck>>
    /\ UNCHANGED flowVars
    /\ UNCHANGED <<sheetVars, cfgVars>>
    /\ UNCHANGED <<sessVars, libVars>>
    /\ UNCHANGED <<raisedIn, now, start_time, payment_confirmed, wret, page, appearedAt,
                   wakeAt, ideal>>

\* the clock advances while a scan or a sleep is running
Tick ==
    /\ \/ wpc = "scan" /\ now - scanStart < MaxScan
       \/ wpc = "sleep" /\ now < wakeAt + MaxOversleep
    /\ now' = now + 1
    /\ ideal' = (ideal /\ wpc = "sleep" /\ now < wakeAt)
    /\ UNCHANGED flowVars
    /\ UNCHANGED <<sheetVars, cfgVars>>
    /\ UNCHANGED <<sessVars, libVars>>
    /\ UNCHANGED <<raisedIn, wpc, start_time, check_count, payment_confirmed, wret, page,
                   appearedAt, scanStart, scanElem0, wakeAt, lastCheck, exitAt>>

\* the site shows a success indicator (and keeps showing it)
PageShowsIndicator ==
    /\ wpc \in {"cond", "scan", "sleep"}
    /\ \E k \in {"elem", "kw"} :
         /\ ~page[k]
         /\ page' = [page EXCEPT ![k] = TRUE]
    /\ appearedAt' = IF appearedAt = Never THEN now ELSE appearedAt
    /\ UNCHANGED flowVars
    /\ UNCHANGED <<sheetVars, cfgVars>>
    /\ UNCHANGED <<sessVars, libVars>>
    /\ UNCHANGED <<raisedIn, wpc, now, start_time, check_count, payment_confirmed, wret,
                   scanStart, scanElem0, wakeAt, lastCheck, exitAt, ideal>>

\* for indicator in PAYMENT_SUCCESS_INDICATORS: a displayed element is found
WaitScanFound ==
    /\ wpc = "scan"
    /\ page.elem
    /\ payment_confirmed' = TRUE
    /\ wpc' = "after"
    /\ exitAt' = now
    /\ UNCHANGED flowVars
    /\ UNCHANGED <<sheetVars, cfgVars>>
    /\ UNCHANGED <<sessVars, libVars>>
    /\ UNCHANGED <<raisedIn, now, start_time, check_count, wret, page, appearedAt,
                   scanStart, scanElem0, wakeAt, lastCheck, ideal>>

\* probing an indicator raises (find, is_displayed or text): the bare
\* `except: continue` swallows the exception and the scan goes on with the
\* next indicator; it ends with a displayed element found or with none
WaitScanRaises ==
    /\ wpc = "scan"
    /\ raisedIn' = "scan"
    /\ \E found \in {f \in BOOLEAN : f => page.elem} :
         IF found
           THEN /\ payment_confirmed' = TRUE
                /\ wpc' = "after"
                /\ exitAt' = now
           ELSE /\ wpc' = "source"
                /\ UNCHANGED <<payment_confirmed, exitAt>>
    /\ UNCHANGED flowVars
    /\ UNCHANGED <<sheetVars, cfgVars>>
    /\ UNCHANGED <<sessVars, libVars>>
    /\ UNCHANGED <<now, start_time, check_count, wret, page, appearedAt,
                   scanStart, scanElem0, wakeAt, lastCheck, ideal>>

\* the scan ends without a displayed indicator element (possible only when
\* none was there at the start of the scan)
WaitScanMiss ==
    /\ wpc = "scan"
    /\ ~scanElem0
    /\ wpc' = "source"
    /\ UNCHANGED flowVars
    /\ UNCHANGED <<sheetVars, cfgVars>>
    /\ UNCHANGED <<sessVars, libVars>>
    /\ UNCHANGED <<raisedIn, now, start_time, check_count, payment_confirmed, wret, page,
                   appearedAt, scanStart, scanElem0, wakeAt, lastCheck, exitAt,
                   ideal>>

\* page_source keyword scan; reading page_source may raise, which the except
\* clause of wait_for_payment_status turns into ('error', ...)
WaitPageSource ==
    /\ wpc = "source"
    /\ \E raises \in BOOLEAN :
         IF raises
           THEN /\ wret' = WaitErrorResult
                /\ wpc' = "done"
                /\ raisedIn' = "source"
                /\ UNCHANGED <<payment_confirmed, wakeAt, exitAt>>
           ELSE IF page.kw
                  THEN /\ payment_confirmed' = TRUE
                       /\ wpc' = "after"
                       /\ exitAt' = now
                       /\ UNCHANGED <<wret, wakeAt, raisedIn>>
                  ELSE /\ wpc' = "sleep"
                       /\ wakeAt' = SleepUntil(now)
                       /\ UNCHANGED <<wret, payment_confirmed, exitAt, raisedIn>>
    /\ UNCHANGED flowVars
    /\ UNCHANGED <<sheetVars, cfgVars>>
    /\ UNCHANGED <<sessVars, libVars>>
    /\ UNCHANGED <<now, start_time, check_count, page, appearedAt, scanStart,
                   scanElem0, lastCheck, ideal>>

\* time.sleep returns
WaitWake ==
    /\ wpc = "sleep"
    /\ now >= wakeAt
    /\ wpc' = "cond"
    /\ UNCHANGED flowVars
    /\ UNCHANGED <<sheetVars, cfgVars>>
    /\ UNCHANGED <<sessVars, libVars>>
    /\ UNCHANGED <<raisedIn, now, start_time, check_count, payment_confirmed, wret, page,
                   appearedAt, scanStart, scanElem0, wakeAt, lastCheck, exitAt,
                   ideal>>

\* after the loop: elapsed = int(time.time() - start_time); return
WaitReturn ==
    /\ wpc = "after"
    /\ wret' = WaitResult(payment_confirmed, IntSec(now - start_time))
    /\ wpc' = "done"
    /\ UNCHANGED flowVars
    /\ UNCHANGED <<sheetVars, cfgVars>>
    /\ UNCHANGED <<sessVars, libVars>>
    /\ UNCHANGED <<raisedIn, now, start_time, check_count, payment_confirmed, page,
                   appearedAt, scanStart, scanElem0, wakeAt, lastCheck, exitAt,
                   ideal>>

\* ------------------------------------------------------------------------
\* process_single_booking after the wait: steps 9-11 and the return
\* ------------------------------------------------------------------------
BOOKING_ID_TEXT == "MMT123456"
PRICE_TEXT == "Rs. 4,500"

\* variant: the extraction steps also run after 'error'
ContinuesAfterWait_AlsoError(ps) == ps \in {"success", "timeout", "error"}

\* the branch on payment_status: 'success' and 'timeout' go on, else returns
ContinuesAfterWait(ps) == ps \in {"success", "timeout"}

\* variant: the else branch drops the payment-state
WaitErrorReturn_NoTag(ps) ==
    [success |-> FALSE, message |-> "Error - Error while waiting: str(e)",
     payment_status |-> None, booking_id |-> None, price |-> None]

\* variant: the else branch returns the price it read
WaitErrorReturn_WithPrice(ps) ==
    [success |-> FALSE, message |-> "Error - Error while waiting: str(e)",
     payment_status |-> ps, booking_id |-> None, price |-> PRICE_TEXT]

\* the tuple returned by the else branch ("error")
WaitErrorReturn(ps) ==
    [success |-> FALSE, message |-> "Error - Error while waiting: str(e)",
     payment_status |-> ps, booking_id |-> None, price |-> None]

\* the tuple returned after extract_price, in the success / timeout branch
FlowReturn(ps, bid, pr) ==
    IF ps = "success"
      THEN IF Truthy(bid)
             THEN [success |-> TRUE, message |-> "Success - Payment Confirmed",
                   payment_status |-> ps, booking_id |-> bid, price |-> pr]
             ELSE [success |-> TRUE, message |-> "Success - Booking ID not found",
                   payment_status |-> ps, booking_id |-> None, price |-> pr]
      ELSE [success |-> TRUE, message |-> "Completed - Verify payment manually",
            payment_status |-> ps, booking_id |-> bid, price |-> pr]

\* payment_status, payment_message = booking_page.wait_for_payment_status()
\* and the if / elif / else on payment_status
AfterWait ==
    /\ pc = "wait_for_payment_status"
    /\ wpc = "done"
    /\ payment_status' = wret.status
    /\ payment_message' = wret.message
    /\ booking_id' = None
    /\ price' = None
    /\ IF ContinuesAfterWait(wret.status)
         THEN /\ pc' = "close_popup_if_present"
              /\ ret' = ret
         ELSE /\ pc' = "classify"
              /\ ret' = WaitErrorReturn(wret.status)
    /\ WaitReset
    /\ UNCHANGED <<i, calls, shots, status, results, writes>>
    /\ UNCHANGED <<sheetVars, cfgVars>>
    /\ UNCHANGED <<sessVars, libVars>>

\* the locators close_popup_if_present probes, in order
CLOSE_SELECTORS == <<"CLOSE_POPUP", "CLOSE_POPUP_ALT", "CLOSE_POPUP_ALT2",
                     "CLOSE_POPUP_ALT3">>

\* what one probe of close_popup_if_present can do: close the popup (native or
\* script click), find nothing to close, or raise
PopupOutcomes == {"closed", "absent", "raised"}

\* one outcome per selector probe, then one for the sweep over all buttons
PopupProbes == [1..(Len(CLOSE_SELECTORS) + 1) -> PopupOutcomes]

\* the probes close_popup_if_present makes before it returns
PopupTrace(probes) ==
    LET closes == {k \in 1..Len(probes) : probes[k] = "closed"} IN
      IF closes = {} THEN probes
      ELSE SubSeq(probes, 1, CHOOSE k \in closes : \A j \in closes : k <= j)

\* variant: an exception of the button sweep leaves close_popup_if_present
PopupResult_SweepRaises(probes) ==
    LET made == PopupTrace(probes) IN
      [ret |-> IF made[Len(made)] = "closed" THEN "True"
               ELSE IF made[Len(made)] = "raised" THEN "raised" ELSE "False",
       trace |-> made]

\* close_popup_if_present: an exception of a selector probe is swallowed by
\* the inner `except: continue`, one of finds((By.TAG_NAME, "button")) by the
\* outer `except Exception`, which returns False
PopupResult(probes) ==
    LET made == PopupTrace(probes) IN
      [ret |-> IF made[Len(made)] = "closed" THEN "True" ELSE "False",
       trace |-> made]

\* close_popup_if_present: returns True or False, its result is not used
ClosePopupIfPresent ==
    /\ pc = "close_popup_if_present"
    /\ \E probes \in PopupProbes :
         LET r == PopupResult(probes)
             entry == [step |-> "close_popup_if_present", ok |-> r.ret = "True",
                       raised |-> \E k \in 1..Len(r.trace) : r.trace[k] = "raised"]
         IN IF r.ret = "raised"
              THEN /\ calls' = Append(calls, entry)
                   /\ pc' = "classify"
                   /\ ret' = ExceptionReturn
              ELSE /\ calls' = Append(calls, entry)
                   /\ pc' = "extract_booking_id"
                   /\ ret' = ret
    /\ UNCHANGED <<i, shots, payment_status, payment_message, booking_id, price,
                   status, results, writes>>
    /\ UNCHANGED waitVars
    /\ UNCHANGED <<sheetVars, cfgVars>>
    /\ UNCHANGED <<sessVars, libVars>>

\* variant: the screenshot is labelled not-found whatever was extracted
ShotLabel_AlwaysNotFound(bid) == "booking_id_not_found"

\* the label of the single screenshot of extract_booking_id
ShotLabel(bid) ==
    IF Truthy(bid) THEN "booking_id_{booking_id}" ELSE "booking_id_not_found"

\* extract_booking_id: the tiers yield found (or raise), then the screenshot
\* is saved (or raises); the except clause saves "booking_id_error", which
\* may raise again and then leaves process_single_booking through its except
ExtractBookingId ==
    /\ pc = "extract_booking_id"
    /\ \E found \in {None, BOOKING_ID_TEXT}, bodyRaises \in BOOLEAN,
          shotRaises \in BOOLEAN, errShotRaises \in BOOLEAN :
         IF ~bodyRaises /\ ~shotRaises
           THEN /\ shots' = Append(shots, ShotLabel(found))
                /\ booking_id' = found
                /\ calls' = Append(calls, [step |-> "extract_booking_id", ok |-> TRUE])
                /\ pc' = "extract_price"
                /\ ret' = ret
           ELSE IF ~errShotRaises
                  THEN /\ shots' = Append(shots, "booking_id_error")
                       /\ booking_id' = None
                       /\ calls' = Append(calls, [step |-> "extract_booking_id",
                                                  ok |-> TRUE])
                       /\ pc' = "extract_price"
                       /\ ret' = ret
                  ELSE /\ shots' = shots
                       /\ booking_id' = booking_id
                       /\ calls' = Append(calls, [step |-> "extract_booking_id",
                                                  ok |-> FALSE])
                       /\ pc' = "classify"
                       /\ ret' = ExceptionReturn
    /\ UNCHANGED <<i, payment_status, payment_message, price, status, results, writes>>
    /\ UNCHANGED waitVars
    /\ UNCHANGED <<sheetVars, cfgVars>>
    /\ UNCHANGED <<sessVars, libVars>>

\* extract_price never raises; then process_single_booking returns
ExtractPrice ==
    /\ pc = "extract_price"
    /\ \E found \in {None, PRICE_TEXT} :
         /\ price' = found
         /\ ret' = FlowReturn(payment_status, booking_id, found)
    /\ calls' = Append(calls, [step |-> "extract_price", ok |-> TRUE])
    /\ pc' = "classify"
    /\ UNCHANGED <<i, shots, payment_status, payment_message, booking_id, status,
                   results, writes>>
    /\ UNCHANGED waitVars
    /\ UNCHANGED <<sheetVars, cfgVars>>
    /\ UNCHANGED <<sessVars, libVars>>

\* ------------------------------------------------------------------------
\* main: status classification, results, end of the loop
\* ------------------------------------------------------------------------
StatusLabels == {"Completed", "Pending Verification", "Skipped", "Failed"}

\* variant: the 'skipped' test is missing
DeriveStatus_NoSkip(ps, success, bid) ==
    IF success /\ Truthy(bid) THEN "Completed"
    ELSE IF success THEN "Pending Verification"
    ELSE "Failed"

\* variant: 'Failed' only for payment-state 'error', no final else
DeriveStatus_TableOnly(ps, success, bid) ==
    IF ps = "skipped" THEN "Skipped"
    ELSE IF success /\ Truthy(bid) THEN "Completed"
    ELSE IF success THEN "Pending Verification"
    ELSE IF ps = "error" THEN "Failed"
    ELSE None

\* variant: `elif success` is tested before `elif success and booking_id`
DeriveStatus_SuccessFirst(ps, success, bid) ==
    IF ps = "skipped" THEN "Skipped"
    ELSE IF success THEN "Pending Verification"
    ELSE IF success /\ Truthy(bid) THEN "Completed"
    ELSE "Failed"

\* if payment_status == 'skipped' ... elif success and booking_id ... elif
\* success ... else
DeriveStatus(ps, success, bid) ==
    IF ps = "skipped" THEN "Skipped"
    ELSE IF success /\ Truthy(bid) THEN "Completed"
    ELSE IF success THEN "Pending Verification"
    ELSE "Failed"

MainClassify ==
    /\ pc = "classify"
    /\ status' = DeriveStatus(ret.payment_status, ret.success, ret.booking_id)
    /\ pc' = "update"
    /\ UNCHANGED <<i, calls, shots, payment_status, payment_message, booking_id,
                   price, ret, results, writes>>
    /\ UNCHANGED waitVars
    /\ UNCHANGED <<sheetVars, cfgVars>>
    /\ UNCHANGED <<sessVars, libVars>>

\* variant: Booking_id is written whether or not there is a booking id
SheetWrites_AlwaysBookingId(row, st, bid, pr) ==
    <<[col |-> "Status", row |-> row, value |-> st]>>
      \o <<[col |-> "Booking_id", row |-> row, value |-> bid]>>
      \o (IF Truthy(pr) THEN <<[col |-> "Price", row |-> row, value |-> pr]>>
           ELSE <<>>)

\* update_status(row, status); `if booking_id:` update_booking_id(row,
\* booking_id); `if price:` update_price(row, price)
SheetWrites(row, st, bid, pr) ==
    <<[col |-> "Status", row |-> row, value |-> st]>>
      \o (IF Truthy(bid) THEN <<[col |-> "Booking_id", row |-> row, value |-> bid]>>
           ELSE <<>>)
      \o (IF Truthy(pr) THEN <<[col |-> "Price", row |-> row, value |-> pr]>>
           ELSE <<>>)

\* the three sheet updates, then results.append({...})
MainUpdate ==
    /\ pc = "update"
    /\ writes' = writes \o SheetWrites(bookings[i].row_number, status,
                                       ret.booking_id, ret.price)
    /\ results' = Append(results,
                         [row |-> bookings[i].row_number, success |-> ret.success,
                          message |-> ret.message,
                          payment_status |-> ret.payment_status,
                          booking_id |-> ret.booking_id, price |-> ret.price,
                          status |-> status])
    /\ pc' = "for"
    /\ UNCHANGED <<i, calls, shots, payment_status, payment_message, booking_id,
                   price, ret, status>>
    /\ UNCHANGED waitVars
    /\ UNCHANGED <<sheetVars, cfgVars>>
    /\ UNCHANGED <<sessVars, libVars>>

\* number of the results r with P(r)
RECURSIVE CountSuccess(_), CountFailed(_), CountStatus(_, _)
CountSuccess(rs) ==
    IF rs = <<>> THEN 0
    ELSE (IF Head(rs).success THEN 1 ELSE 0) + CountSuccess(Tail(rs))

\* variant: every result without success counts as failed
CountFailed_AllUnsuccessful(rs) == Len(rs) - CountSuccess(rs)

CountFailed(rs) ==
    IF rs = <<>> THEN 0
    ELSE (IF ~Head(rs).success /\ Head(rs).payment_status # "skipped"
            THEN 1 ELSE 0) + CountFailed(Tail(rs))

CountStatus(rs, ps) ==
    IF rs = <<>> THEN 0
    ELSE (IF Head(rs).payment_status = ps THEN 1 ELSE 0)
         + CountStatus(Tail(rs), ps)

\* the counts main prints in its summary
Summary(rs) ==
    [total |-> Len(rs),
     successful |-> CountSuccess(rs),
     failed |-> CountFailed(rs),
     skipped |-> CountStatus(rs, "skipped"),
     payment_confirmed |-> CountStatus(rs, "success"),
     payment_unknown |-> CountStatus(rs, "timeout")]

\* the for loop is exhausted: summary, time.sleep(30), driver.quit()
MainFinish ==
    /\ pc = "for"
    /\ LoopExhausted
    /\ pc' = "done"
    /\ summary' = Summary(results)
    /\ driver' = "quit"
    /\ UNCHANGED <<i, calls, shots, payment_status, payment_message, booking_id,
                   price, ret, status, results, writes>>
    /\ UNCHANGED waitVars
    /\ UNCHANGED <<sheetVars, cfgVars>>
    /\ UNCHANGED <<sessions, answers, libVars>>

\* ------------------------------------------------------------------------
\* WaitHelpers and BasePage: one call of a library function
\* ------------------------------------------------------------------------
MaxRetries == 2         \* most retries a caller passes to a wait helper

\* the default of the retries parameter of wait_for_visible,
\* wait_for_clickable and find
DEFAULT_RETRIES == 2

\* what one self.wait.until(...) can do: return the element, or raise
\* TimeoutException, StaleElementReferenceException or another exception
WaitOutcomes == {"element", "timeout", "stale", "error"}

\* what one driver.find_element(...) can do: return the element, or raise
\* NoSuchElementException, StaleElementReferenceException or another exception
FindOutcomes == {"element", "nosuch", "stale", "error"}

\* variant: the wait helpers catch TimeoutException only
CaughtByWait_TimeoutOnly == {"timeout"}

\* except (TimeoutException, StaleElementReferenceException)
CaughtByWait == {"timeout", "stale"}

\* except (NoSuchElementException, StaleElementReferenceException)
CaughtByFind == {"nosuch", "stale"}

\* `for attempt in range(retries)` of wait_for_visible, wait_for_clickable and
\* find, from iteration `attempt` on: the element is returned at once, a
\* caught exception goes to the next attempt or, on the last one, returns
\* None, any other exception leaves the function; outs[k] is what the k-th
\* attempt does
RECURSIVE Poll(_, _, _, _, _)
Poll(op, retries, outs, caught, attempt) ==
    IF attempt >= retries THEN [ret |-> None, trace |-> <<>>]
    ELSE LET made == <<[op |-> op, out |-> outs[attempt + 1]]>> IN
      IF outs[attempt + 1] = "element" THEN [ret |-> "element", trace |-> made]
      ELSE IF outs[attempt + 1] \in caught
        THEN IF attempt < retries - 1
               THEN [ret |-> Poll(op, retries, outs, caught, attempt + 1).ret,
                     trace |-> made \o Poll(op, retries, outs, caught,
                                            attempt + 1).trace]
               ELSE [ret |-> None, trace |-> made]
      ELSE [ret |-> "raised", trace |-> made]

\* variant: the script click follows a native click that succeeded, too
ClickResult_ScriptAlways(waits, native, finds, script) ==
    LET w == Poll("wait_for_clickable", DEFAULT_RETRIES, waits, CaughtByWait, 0)
        f == Poll("find", DEFAULT_RETRIES, finds, CaughtByFind, 0)
        first == IF w.ret = "element"
                   THEN w.trace \o <<[op |-> "click", out |-> native]>>
                   ELSE w.trace
    IN  IF w.ret = "raised" THEN [ret |-> "raised", trace |-> w.trace]
        ELSE IF f.ret = "raised" THEN [ret |-> "False", trace |-> first \o f.trace]
        ELSE IF f.ret = None THEN [ret |-> None, trace |-> first \o f.trace]
        ELSE [ret |-> IF script = "ok" THEN "True" ELSE "False",
              trace |-> first \o f.trace
                          \o <<[op |-> "execute_script", out |-> script]>>]

\* BasePage.click: wait_for_clickable is called outside any try; a native
\* click that raises falls through to find and the script click, whose
\* exceptions return False; when find returns None no return statement is
\* reached
ClickResult(waits, native, finds, script) ==
    LET w == Poll("wait_for_clickable", DEFAULT_RETRIES, waits, CaughtByWait, 0)
        f == Poll("find", DEFAULT_RETRIES, finds, CaughtByFind, 0)
        first == IF w.ret = "element"
                   THEN w.trace \o <<[op |-> "click", out |-> native]>>
                   ELSE w.trace
    IN  IF w.ret = "raised" THEN [ret |-> "raised", trace |-> w.trace]
        ELSE IF w.ret = "element" /\ native = "ok"
          THEN [ret |-> "True", trace |-> first]
        ELSE IF f.ret = "raised" THEN [ret |-> "False", trace |-> first \o f.trace]
        ELSE IF f.ret = None THEN [ret |-> None, trace |-> first \o f.trace]
        ELSE [ret |-> IF script = "ok" THEN "True" ELSE "False",
              trace |-> first \o f.trace
                          \o <<[op |-> "execute_script", out |-> script]>>]

\* BasePage.type: wait_for_visible is called outside the try; clear and
\* send_keys are inside it
TypeResult(waits, keys) ==
    LET w == Poll("wait_for_visible", DEFAULT_RETRIES, waits, CaughtByWait, 0) IN
      IF w.ret = "raised" THEN [ret |-> "raised", trace |-> w.trace]
      ELSE IF w.ret = None THEN [ret |-> "False", trace |-> w.trace]
      ELSE [ret |-> IF keys = "ok" THEN "True" ELSE "False",
            trace |-> w.trace \o <<[op |-> "send_keys", out |-> keys]>>]

\* no library function has been called yet
LibCallable == call.fn = None

\* one call of wait_for_visible or wait_for_clickable
WaitForElement ==
    /\ LibCallable
    /\ \E fn \in {"wait_for_visible", "wait_for_clickable"},
          retries \in 0..MaxRetries, outs \in [1..MaxRetries -> WaitOutcomes] :
         /\ call' = [fn |-> fn, retries |-> retries]
         /\ trace' = Poll(fn, retries, outs, CaughtByWait, 0).trace
         /\ fret' = Poll(fn, retries, outs, CaughtByWait, 0).ret
    /\ UNCHANGED <<flowVars, waitVars, sheetVars, cfgVars, sessVars, worksheet>>

\* one call of BasePage.click
Click ==
    /\ LibCallable
    /\ \E waits \in [1..DEFAULT_RETRIES -> WaitOutcomes],
          finds \in [1..DEFAULT_RETRIES -> FindOutcomes],
          native \in {"ok", "raised"}, script \in {"ok", "raised"} :
         /\ call' = [fn |-> "click"]
         /\ trace' = ClickResult(waits, native, finds, script).trace
         /\ fret' = ClickResult(waits, native, finds, script).ret
    /\ UNCHANGED <<flowVars, waitVars, sheetVars, cfgVars, sessVars, worksheet>>

\* one call of BasePage.type
Type ==
    /\ LibCallable
    /\ \E waits \in [1..DEFAULT_RETRIES -> WaitOutcomes], keys \in {"ok", "raised"} :
         /\ call' = [fn |-> "type"]
         /\ trace' = TypeResult(waits, keys).trace
         /\ fret' = TypeResult(waits, keys).ret
    /\ UNCHANGED <<flowVars, waitVars, sheetVars, cfgVars, sessVars, worksheet>>

\* the results a call of BasePage.type can have
TypeOutcomes ==
    {TypeResult(waits, keys).ret :
       waits \in [1..DEFAULT_RETRIES -> WaitOutcomes], keys \in {"ok", "raised"}}

\* the fields enter_guest_details types, in order
GUEST_FIELDS == <<"FIRST_NAME", "LAST_NAME", "EMAIL", "MOBILE">>

\* variant: a field that could not be typed ends the step with False
GuestDetailsResult_FalseAborts(types) ==
    LET stops == {k \in 1..Len(types) : types[k] # "True"}
        last == IF stops = {} THEN Len(types)
                ELSE CHOOSE k \in stops : \A j \in stops : k <= j
    IN  [ret |-> IF stops = {} THEN "True" ELSE "False",
         trace |-> [k \in 1..last |-> [op |-> GUEST_FIELDS[k], out |-> types[k]]]]

\* enter_guest_details: `if self.type(FIELD, value): print(...)` for the four
\* fields, then return True; an exception leaving a type call is caught by
\* `except Exception`, which returns False; types[k] is what the k-th type
\* call does
GuestDetailsResult(types) ==
    LET stops == {k \in 1..Len(types) : types[k] = "raised"}
        last == IF stops = {} THEN Len(types)
                ELSE CHOOSE k \in stops : \A j \in stops : k <= j
    IN  [ret |-> IF stops = {} THEN "True" ELSE "False",
         trace |-> [k \in 1..last |-> [op |-> GUEST_FIELDS[k], out |-> types[k]]]]

\* one call of BookingPage.enter_guest_details
GuestDetails ==
    /\ LibCallable
    /\ \E types \in [1..Len(GUEST_FIELDS) -> TypeOutcomes] :
         /\ call' = [fn |-> "enter_guest_details"]
         /\ trace' = GuestDetailsResult(types).trace
         /\ fret' = GuestDetailsResult(types).ret
    /\ UNCHANGED <<flowVars, waitVars, sheetVars, cfgVars, sessVars, worksheet>>

\* variant: the script-level injection is tried first
UPI_TIERS_ScriptFirst == <<"script", "testid", "name", "id", "generic">>

\* the strategies of enter_upi_id, in order: data-testid, name, id, the sweep
\* over all inputs, the script-level value injection
UPI_TIERS == <<"testid", "name", "id", "generic", "script">>

\* what a strategy can do: enter the handle, fail to (nothing found, or an
\* exception its own try swallowed), or raise to the `except Exception` of
\* enter_upi_id; the name and id strategies run wholly inside `try ... except:
\* pass`
TierOutcomes(tier) ==
    IF tier \in {"name", "id"} THEN {"entered", "failed"}
    ELSE {"entered", "failed", "raised"}

\* enter_upi_id: the strategies run in order until one enters the handle
\* (True) or raises (False); when all have failed the screenshot
\* "upi_input_not_found" is taken and False returned; probes[tier] is what
\* the strategy does, shot what the screenshot does
UpiResult(probes, shot) ==
    LET stops == {k \in 1..Len(UPI_TIERS) : probes[UPI_TIERS[k]] # "failed"}
        last == IF stops = {} THEN Len(UPI_TIERS)
                ELSE CHOOSE k \in stops : \A j \in stops : k <= j
        tried == [k \in 1..last |-> [op |-> UPI_TIERS[k], out |-> probes[UPI_TIERS[k]]]]
    IN  [ret |-> IF tried[last].out = "entered" THEN "True" ELSE "False",
         trace |-> IF stops = {}
                     THEN tried \o <<[op |-> "screenshot", out |-> shot]>>
                     ELSE tried]

\* one call of BookingPage.enter_upi_id
UpiId ==
    /\ LibCallable
    /\ \E probes \in [{"testid", "name", "id", "generic", "script"} ->
                        {"entered", "failed", "raised"}],
          shot \in {"ok", "raised"} :
         /\ \A k \in 1..Len(UPI_TIERS) : probes[UPI_TIERS[k]] \in TierOutcomes(UPI_TIERS[k])
         /\ call' = [fn |-> "enter_upi_id"]
         /\ trace' = UpiResult(probes, shot).trace
         /\ fret' = UpiResult(probes, shot).ret
    /\ UNCHANGED <<flowVars, waitVars, sheetVars, cfgVars, sessVars, worksheet>>

\* the shortest id the regex patterns and the class sweep accept
MIN_ID_LEN == 6

\* any(char.isdigit() for char in text)
HasDigit(text) ==
    \E k \in 1..Len(text) : \E d \in 1..10 : text[k] = DigitChars[d]

\* length of the longest run of characters of the set class in text from
\* position p
Run(class, text, p) ==
    LET ends == {k \in p..Len(text) : text[k] \notin class} IN
      IF ends = {} THEN Len(text) - p + 1
      ELSE (CHOOSE k \in ends : \A j \in ends : k <= j) - p

\* re.search(label + r'[:\s]+([A-Z0-9]{6,})', text, re.IGNORECASE): the
\* leftmost occurrence of the label, in any case, followed by at least one
\* colon or whitespace and then at least MIN_ID_LEN letters or digits, which
\* are group 1
PatternSearch(label, text) ==
    LET Sep == {":", " ", "\t", "\n", "\r", "\f"}
        IdChar == {UpperCase[k] : k \in 1..26} \cup {LowerCase[k] : k \in 1..26}
                  \cup {DigitChars[k] : k \in 1..10}
        IdAt(p) == p + Len(label) + Run(Sep, text, p + Len(label))
        starts == {p \in 1..(Len(text) - Len(label) + 1) :
                     /\ Lower(SubSeq(text, p, p + Len(label) - 1)) = Lower(label)
                     /\ Run(Sep, text, p + Len(label)) >= 1
                     /\ Run(IdChar, text, IdAt(p)) >= MIN_ID_LEN}
        first == CHOOSE p \in starts : \A q \in starts : p <= q
    IN  IF starts = {} THEN [found |-> FALSE, text |-> <<>>]
        ELSE [found |-> TRUE,
              text |-> SubSeq(text, IdAt(first),
                              IdAt(first) + Run(IdChar, text, IdAt(first)) - 1)]

\* the labels of the regex patterns, in the order they are tried
PATTERN_LABELS ==
    <<<<"B", "o", "o", "k", "i", "n", "g", " ", "I", "D">>,
      <<"B", "o", "o", "k", "i", "n", "g", " ", "N", "u", "m", "b", "e", "r">>,
      <<"C", "o", "n", "f", "i", "r", "m", "a", "t", "i", "o", "n", " ", "N", "u", "m", "b", "e", "r">>,
      <<"R", "e", "f", "e", "r", "e", "n", "c", "e">>,
      <<"O", "r", "d", "e", "r", " ", "I", "D">>>>

\* `for pattern in patterns`: the first pattern that matches gives the id
RegexTier(text) ==
    LET hits == {k \in 1..Len(PATTERN_LABELS) :
                   PatternSearch(PATTERN_LABELS[k], text).found} IN
      IF hits = {} THEN [found |-> FALSE, text |-> <<>>]
      ELSE PatternSearch(PATTERN_LABELS[CHOOSE k \in hits : \A j \in hits : k <= j],
                         text)

\* stripped text of the displayed element a selector yields: none or empty,
\* no digit, a short text with a digit, an id
ElementTexts ==
    {<<>>, <<"T", "o", "t", "a", "l">>, <<"A", "B", "1", "2">>, <<"N", "H", "7", "3", "1", "2", "3", "4", "5">>}

\* page markups: the documented one, two labels out of pattern order, an id
\* that is too short, none
Markups ==
    {<<"B", "o", "o", "k", "i", "n", "g", " ", "I", "D", ":", " ", "A", "B", "C", "1", "2", "3", "X", "Y", "Z">>,
     <<"O", "r", "d", "e", "r", " ", "I", "D", ":", " ", "Z", "Z", "9", "9", "9", "9", " ", "r", "e", "f", "e", "r", "e", "n", "c", "e", ":", " ", "R", "E", "F", "7", "7", "7">>,
     <<"B", "o", "o", "k", "i", "n", "g", " ", "I", "D", ":", " ", "A", "B", "1">>,
     <<>>}

\* what a lookup of the page can do: raise, or yield one of the texts
Lookups(texts) ==
    {[raised |-> TRUE, text |-> <<>>]} \cup [raised : {FALSE}, text : texts]

\* what reading driver.page_source can do: raise, or yield a markup, over
\* which the patterns are then searched (id holds their outcome)
SourceLookups ==
    {[raised |-> TRUE, text |-> <<>>, id |-> RegexTier(<<>>)]}
    \cup {[raised |-> FALSE, text |-> m, id |-> RegexTier(m)] : m \in Markups}

\* extract_booking_id: the selectors BOOKING_ID and BOOKING_ID_ALT (an
\* exception of either is swallowed), the patterns over driver.page_source,
\* the sweep over [class*='latoBlack']; then the screenshot. An exception of
\* page_source, of the sweep's finds or of the screenshot goes to `except
\* Exception`, which saves "booking_id_error" and returns None, or raises
\* when that screenshot fails.
ExtractResult(e) ==
    LET Elem(op, in, ok) ==
            [op |-> op, out |-> IF in.raised THEN "raised"
                                ELSE IF ok THEN "match" ELSE "none"]
        css == Elem("css", e.css, e.css.text # <<>> /\ HasDigit(e.css.text))
        xpath == Elem("xpath", e.xpath, e.xpath.text # <<>> /\ HasDigit(e.xpath.text))
        regex == Elem("page_source", e.source, e.source.id.found)
        sweep == Elem("sweep", e.sweep, /\ Len(e.sweep.text) >= MIN_ID_LEN
                                        /\ HasDigit(e.sweep.text))
        tiers == IF css.out = "match" THEN <<css>>
                 ELSE IF xpath.out = "match" THEN <<css, xpath>>
                 ELSE IF regex.out # "none" THEN <<css, xpath, regex>>
                 ELSE <<css, xpath, regex, sweep>>
        last == tiers[Len(tiers)]
        found == IF last.out # "match" THEN <<>>
                 ELSE CASE last.op = "css" -> e.css.text
                        [] last.op = "xpath" -> e.xpath.text
                        [] last.op = "page_source" -> e.source.id.text
                        [] last.op = "sweep" -> e.sweep.text
        label == IF found # <<>> THEN "booking_id_{booking_id}"
                 ELSE "booking_id_not_found"
    IN  IF last.out # "raised" /\ e.shot = "ok"
          THEN [ret |-> IF found # <<>> THEN "id" ELSE None, text |-> found,
                trace |-> tiers \o <<[op |-> "screenshot", out |-> label]>>]
        ELSE IF e.errShot = "ok"
          THEN [ret |-> None, text |-> <<>>,
                trace |-> tiers \o <<[op |-> "screenshot", out |-> "booking_id_error"]>>]
        ELSE [ret |-> "raised", text |-> <<>>, trace |-> tiers]

\* one call of BookingPage.extract_booking_id
ExtractId ==
    /\ LibCallable
    /\ \E e \in [css : Lookups(ElementTexts), xpath : Lookups(ElementTexts),
                 source : SourceLookups, sweep : Lookups(ElementTexts),
                 shot : {"ok", "raised"}, errShot : {"ok", "raised"}] :
         LET r == ExtractResult(e) IN
           /\ call' = [fn |-> "extract_booking_id", css |-> e.css, xpath |-> e.xpath,
                       source |-> e.source, sweep |-> e.sweep]
           /\ trace' = r.trace
           /\ fret' = [ret |-> r.ret, text |-> r.text]
    /\ UNCHANGED <<flowVars, waitVars, sheetVars, cfgVars, sessVars, worksheet>>

\* ------------------------------------------------------------------------
\* GoogleSheetsManager: update_status, update_booking_id, update_price
\* ------------------------------------------------------------------------
\* the column each update function writes
UpdateColumn ==
    [update_status |-> "Status", update_booking_id |-> "Booking_id",
     update_price |-> "Price"]

\* the rows of the DataFrame as far as the update functions touch them
UpdateRows ==
    [Status : {StrCell(<<"n", "a", "n">>), StrCell(<<"P", "e", "n", "d", "i", "n", "g">>)},
     Booking_id : {NaNCell}, Price : {NaNCell}]

\* the values main passes to the update functions
UpdateValues ==
    {<<"C", "o", "m", "p", "l", "e", "t", "e", "d">>,
     <<"P", "e", "n", "d", "i", "n", "g", " ", "V", "e", "r", "i", "f", "i", "c",
       "a", "t", "i", "o", "n">>,
     <<"S", "k", "i", "p", "p", "e", "d">>,
     <<"F", "a", "i", "l", "e", "d">>,
     <<"M", "M", "T", "1", "2", "3", "4", "5", "6">>}

\* the local part: `self.df[col] = ''` when the column is missing, then
\* `self.df.at[row_number - 2, col] = value` when that index is in the frame
UpdateLocal(frame, columns, col, row_number, value) ==
    LET created == IF col \in columns THEN frame
                   ELSE [k \in 1..Len(frame) |->
                           [frame[k] EXCEPT ![col] = StrCell(<<>>)]]
    IN  IF 0 <= row_number - 2 /\ row_number - 2 < Len(frame)
          THEN [created EXCEPT ![row_number - 1][col] = StrCell(value)]
          ELSE created

\* variant: the remote write is attempted without a worksheet handle
RemoteWrites_IgnoresWorksheet(ws, header, col, row_number, value, raisesAt) ==
    LET Cell(r, c, v) == [op |-> "update_cell", row |-> r, col |-> c, value |-> v,
                          out |-> "ok"]
        plan == <<[op |-> "row_values", row |-> 1, col |-> None, value |-> <<>>,
                   out |-> "ok"]>>
                \o (IF col \in header THEN <<>> ELSE <<Cell(1, col, <<>>)>>)
                \o <<Cell(row_number, col, value)>>
    IN  IF raisesAt \in 1..Len(plan)
          THEN [k \in 1..raisesAt |->
                  IF k = raisesAt THEN [plan[k] EXCEPT !.out = "raised"] ELSE plan[k]]
          ELSE plan

\* the remote part, `if self.worksheet:`: row_values(1), update_cell(1, ...)
\* for a column the header lacks, update_cell(row_number, ...); the call
\* numbered raisesAt raises and ends the remote part
RemoteWrites(ws, header, col, row_number, value, raisesAt) ==
    LET Cell(r, c, v) == [op |-> "update_cell", row |-> r, col |-> c, value |-> v,
                          out |-> "ok"]
        plan == <<[op |-> "row_values", row |-> 1, col |-> None, value |-> <<>>,
                   out |-> "ok"]>>
                \o (IF col \in header THEN <<>> ELSE <<Cell(1, col, <<>>)>>)
                \o <<Cell(row_number, col, value)>>
    IN  IF ws = None THEN <<>>
        ELSE IF raisesAt \in 1..Len(plan)
          THEN [k \in 1..raisesAt |->
                  IF k = raisesAt THEN [plan[k] EXCEPT !.out = "raised"] ELSE plan[k]]
          ELSE plan

\* one call of update_status, update_booking_id or update_price: True for a
\* row of the frame whatever the remote part does, False otherwise
\* (the header of the remote sheet and the remote call that raises matter
\* only with a worksheet handle)
UpdateSheet ==
    /\ LibCallable
    /\ \E fn \in DOMAIN UpdateColumn, row_number \in 1..(NumRows + 2),
          value \in UpdateValues,
          header \in IF worksheet = None THEN {{}}
                     ELSE SUBSET {"Status", "Booking_id", "Price"},
          raisesAt \in IF worksheet = None THEN {0} ELSE 0..3 :
         /\ call' = [fn |-> fn, row_number |-> row_number, value |-> value]
         /\ df' = UpdateLocal(df, cols, UpdateColumn[fn], row_number, value)
         /\ cols' = cols \cup {UpdateColumn[fn]}
         /\ IF 0 <= row_number - 2 /\ row_number - 2 < Len(df)
              THEN /\ trace' = RemoteWrites(worksheet, header, UpdateColumn[fn],
                                            row_number, value, raisesAt)
                   /\ fret' = "True"
              ELSE /\ trace' = <<>>
                   /\ fret' = "False"
    /\ UNCHANGED <<flowVars, waitVars, bookings, cfgVars, sessVars, worksheet>>

\* ------------------------------------------------------------------------
\* Specifications
\* ------------------------------------------------------------------------
FlowIdle ==
    /\ calls = <<>> /\ shots = <<>>
    /\ payment_status = None /\ payment_message = NoMessage
    /\ booking_id = None /\ price = None
    /\ ret = NoRet /\ status = None /\ results = <<>> /\ writes = <<>>

\* main after get_pending_bookings returned the worklist
SheetRead == df = <<>> /\ cols = {} /\ bookings = Worklist

\* no booking loaded yet
ConfigIdle ==
    /\ Config = ConfigNone /\ loaded = NotLoaded /\ hotel_url = NoUrl
    /\ built = <<>> /\ today = Today

\* the first booking of the worklist is loaded and its page is open
ConfigFirst ==
    /\ Config = LoadedConfig(Worklist[1], Today)
    /\ loaded = LoadedDates(Worklist[1], Today)
    /\ hotel_url = BuildUrl(LoadedConfig(Worklist[1], Today))
    /\ built = <<BuildRecord(LoadedConfig(Worklist[1], Today))>>
    /\ today = Today

\* no browser session yet
NoSession ==
    driver = None /\ sessions = 0 /\ answers = NotAsked /\ summary = NoSummary

\* the session main created is open
SessionOpen ==
    driver = "open" /\ sessions = 1 /\ answers = Answered /\ summary = NoSummary

\* no library function is under call
LibIdle == worksheet = None /\ call = [fn |-> None] /\ trace = <<>> /\ fret = None

\* a run of main over the worklist
Init ==
    /\ pc = "main"
    /\ i = 0
    /\ FlowIdle
    /\ WaitIdle
    /\ df = <<>> /\ cols = {} /\ bookings \in {<<>>, Worklist}
    /\ ConfigIdle
    /\ NoSession
    /\ LibIdle

Next ==
    \/ MainStart
    \/ SetupDriver
    \/ MainFor
    \/ OpenHotelPage
    \/ ClickBookNow
    \/ EnterGuestDetails
    \/ ClickPayNow
    \/ SelectUpiPayment
    \/ EnterUpiId
    \/ SendPaymentRequest
    \/ WaitBegin
    \/ WaitLoopTest
    \/ Tick
    \/ PageShowsIndicator
    \/ WaitScanFound
    \/ WaitScanRaises
    \/ WaitScanMiss
    \/ WaitPageSource
    \/ WaitWake
    \/ WaitReturn
    \/ AfterWait
    \/ ClosePopupIfPresent
    \/ ExtractBookingId
    \/ ExtractPrice
    \/ MainClassify
    \/ MainUpdate
    \/ MainFinish

Spec == Init /\ [][Next]_vars

\* one call of wait_for_payment_status, from its entry to its return
InitWait ==
    /\ pc = "wait_for_payment_status"
    /\ i = 1
    /\ calls = [k \in 1..Len(GatedSteps) |-> [step |-> GatedSteps[k], ok |-> TRUE]]
    /\ shots = <<>>
    /\ payment_status = None /\ payment_message = NoMessage
    /\ booking_id = None /\ price = None
    /\ ret = NoRet /\ status = None /\ results = <<>> /\ writes = <<>>
    /\ WaitIdle
    /\ SheetRead
    /\ ConfigFirst
    /\ SessionOpen
    /\ LibIdle

NextWait ==
    \/ WaitBegin
    \/ WaitLoopTest
    \/ Tick
    \/ PageShowsIndicator
    \/ WaitScanFound
    \/ WaitScanRaises
    \/ WaitScanMiss
    \/ WaitPageSource
    \/ WaitWake
    \/ WaitReturn

SpecWait == InitWait /\ [][NextWait]_vars

\* the classification of main applied to every 5-tuple
PaymentStates == {"success", "timeout", "skipped", "error", None}

InitClassify ==
    /\ pc = "classify"
    /\ i = 1
    /\ calls = <<>> /\ shots = <<>>
    /\ payment_status = None /\ payment_message = NoMessage
    /\ booking_id = None /\ price = None
    /\ ret \in [success : BOOLEAN, message : {"message"},
                payment_status : PaymentStates,
                booking_id : {None, "", BOOKING_ID_TEXT},
                price : {None, "", PRICE_TEXT}]
    /\ status = None /\ results = <<>> /\ writes = <<>>
    /\ WaitIdle
    /\ SheetRead
    /\ ConfigFirst
    /\ SessionOpen
    /\ LibIdle

NextClassify ==
    \/ MainClassify
    \/ MainUpdate

SpecClassify == InitClassify /\ [][NextClassify]_vars

\* the sheets of at most n rows
RECURSIVE SheetsUpTo(_)
SheetsUpTo(n) ==
    IF n = 0 THEN {<<>>}
    ELSE SheetsUpTo(n - 1) \cup [1..n -> SheetRows]

\* get_pending_bookings applied to every sheet of at most NumRows rows
InitPending ==
    /\ pc = "get_pending_bookings"
    /\ i = 0
    /\ FlowIdle
    /\ WaitIdle
    /\ df \in SheetsUpTo(NumRows)
    /\ cols \in SUBSET {"Status", "Hotel ID"}
    /\ bookings = <<>>
    /\ ConfigIdle
    /\ NoSession
    /\ LibIdle

NextPending == GetPendingBookings

SpecPending == InitPending /\ [][NextPending]_vars

\* load_booking_from_dict and build_hotel_url called in any order
InitUrl ==
    /\ pc = "url"
    /\ i = 0
    /\ FlowIdle
    /\ WaitIdle
    /\ df = <<>> /\ cols = {} /\ bookings = <<>>
    /\ Config = ConfigNone /\ loaded = NotLoaded /\ hotel_url = NoUrl
    /\ built = <<>>
    /\ today \in RunDates
    /\ NoSession
    /\ LibIdle

NextUrl ==
    \/ LoadBookingFromDict
    \/ BuildHotelUrl

SpecUrl == InitUrl /\ [][NextUrl]_vars

\* one call of a library function of WaitHelpers, BasePage or BookingPage
InitPage ==
    /\ pc = "library"
    /\ i = 0
    /\ FlowIdle
    /\ WaitIdle
    /\ df = <<>> /\ cols = {} /\ bookings = <<>>
    /\ ConfigIdle
    /\ SessionOpen
    /\ LibIdle

NextPage ==
    \/ WaitForElement
    \/ Click
    \/ Type
    \/ GuestDetails
    \/ UpiId
    \/ ExtractId

SpecPage == InitPage /\ [][NextPage]_vars

\* one update call on every frame of at most NumRows rows, with and without
\* write access
InitSink ==
    /\ pc = "update"
    /\ i = 0
    /\ FlowIdle
    /\ WaitIdle
    /\ df \in UNION {[1..n -> UpdateRows] : n \in 0..NumRows}
    /\ cols \in SUBSET {"Status", "Booking_id", "Price"}
    /\ bookings = <<>>
    /\ ConfigIdle
    /\ SessionOpen
    /\ call = [fn |-> None] /\ trace = <<>> /\ fret = None
    /\ worksheet \in {None, "sheet1"}

NextSink == UpdateSheet

SpecSink == InitSink /\ [][NextSink]_vars

\* a sheet is read, one update function is called, and after update_status the
\* same table is read again
InitReread ==
    /\ pc = "get_pending_bookings"
    /\ i = 0
    /\ FlowIdle
    /\ WaitIdle
    /\ df \in SheetsUpTo(NumRows)
    /\ cols \in {{"Hotel ID"}, {"Status", "Hotel ID"}}
    /\ bookings = <<>>
    /\ ConfigIdle
    /\ NoSession
    /\ LibIdle

NextReread ==
    \/ GetPendingBookings
    \/ pc = "got_pending_bookings" /\ UpdateSheet
    \/ GetPendingAgain

SpecReread == InitReread /\ [][NextReread]_vars

\* ------------------------------------------------------------------------
\* Properties
\* ------------------------------------------------------------------------
Returned == pc \in {"classify", "update"}

\* C1: the steps BookNow .. AwaitPaymentConfirmation are invoked in exactly
\* this order, and a step is invoked only if every earlier gated step
\* returned true; send_payment_request is never invoked after a failed
\* click_book_now, click_pay_now, select_upi_payment or enter_upi_id.
C1_StepsInOrderAndGated ==
    LET order == <<"click_book_now", "enter_guest_details", "click_pay_now",
                   "select_upi_payment", "enter_upi_id", "send_payment_request",
                   "wait_for_payment_status">>
    IN  /\ \A k \in 1..Len(calls) : k <= 7 => calls[k].step = order[k]
        /\ \A k \in 1..Len(calls) : \A j \in 1..(k - 1) : j <= 6 => calls[j].ok
        /\ \A k \in 1..Len(calls) :
             calls[k].step = "send_payment_request" =>
               \A s \in {"click_book_now", "click_pay_now", "select_upi_payment",
                         "enter_upi_id"} :
                 \E j \in 1..(k - 1) : calls[j].step = s /\ calls[j].ok

C1_Witness ==
    /\ Len(calls) >= 7
    /\ calls[6].step = "send_payment_request"
    /\ calls[7].step = "wait_for_payment_status"

\* C2: when one of the steps 2-7 returns false, no later step of the booking
\* is invoked and process_single_booking returns success = false with the
\* message of the failed step.
C2_FailureAbortsWithMessage ==
    LET msg == <<"Skipped - Book Now button not found",
                 "Failed to enter guest details",
                 "Pay Now button not found",
                 "UPI option not found",
                 "Failed to enter UPI ID",
                 "Failed to send payment request">>
    IN  \A k \in 1..Len(calls) :
          (k <= 6 /\ ~calls[k].ok) =>
            /\ Len(calls) = k
            /\ pc \in {"classify", "update", "for", "done"}
            /\ ret.success = FALSE
            /\ ret.message = msg[k]

C2_Witness ==
    /\ Len(calls) = 5
    /\ calls[5].step = "enter_upi_id"
    /\ ~calls[5].ok
    /\ pc = "classify"

\* C3: once wait_for_payment_status has been invoked, steps 8-11 all run and
\* the booking never ends with success = false, whatever happens in them.
C3_LateStepsNeverAbort ==
    (Returned /\ Len(calls) >= 7) =>
        /\ ret.success = TRUE
        /\ Len(calls) = 10
        /\ calls[8].step = "close_popup_if_present"
        /\ calls[9].step = "extract_booking_id"
        /\ calls[10].step = "extract_price"

\* C4: when click_book_now returns false the outcome is success = false with
\* payment-state 'skipped', main derives 'Skipped', and no later step runs.
C4_BookNowFailureSkips ==
    (Len(calls) >= 1 /\ ~calls[1].ok) =>
        /\ calls[1].step = "click_book_now"
        /\ Len(calls) = 1
        /\ ret.success = FALSE
        /\ ret.payment_status = "skipped"
        /\ pc # "classify" => status = "Skipped"

C4_Witness ==
    /\ pc = "update"
    /\ Len(calls) = 1
    /\ ~calls[1].ok
    /\ status = "Skipped"

\* C5: the classification maps every (payment-state, success, booking id)
\* triple, payment-state None included, to exactly one of the four labels.
C5_ClassificationTotal ==
    pc = "update" =>
      Cardinality({l \in {"Completed", "Pending Verification", "Skipped", "Failed"} :
                     l = status}) = 1

C5_Witness ==
    /\ pc = "update"
    /\ ret.payment_status = None
    /\ ~ret.success
    /\ ret.booking_id = ""
    /\ status = "Failed"

\* the decision table of the specification, first match wins
TableStatus(ps, success, hasId) ==
    IF ps = "skipped" THEN "Skipped"
    ELSE IF ps \in {"success", "timeout"} /\ success /\ hasId THEN "Completed"
    ELSE IF ps \in {"success", "timeout"} /\ success /\ ~hasId
      THEN "Pending Verification"
    ELSE IF ps = "error" /\ ~success THEN "Failed"
    ELSE "<no row>"

\* C6 as stated: for every outcome process_single_booking returns, the status
\* main derives is the first matching row of the four-row decision table.
C6_StatusIsTableRow ==
    pc = "update" =>
      status = TableStatus(ret.payment_status, ret.success, Truthy(ret.booking_id))

\* C6 amended: the derived status is the first matching row of the table
\* extended by the row (no payment-state, success = false) -> Failed.
C6_StatusIsExtendedTableRow ==
    pc = "update" =>
      status = IF ret.payment_status = None /\ ~ret.success
                 THEN "Failed"
                 ELSE TableStatus(ret.payment_status, ret.success,
                                  Truthy(ret.booking_id))

C6_Witness ==
    /\ pc = "update"
    /\ ret.payment_status = None
    /\ status = "Failed"

HasReturned == ret # NoRet

\* C7 as stated: every returned outcome carries one of the four tags.
C7_TagIsOneOfFour ==
    HasReturned => ret.payment_status \in {"success", "timeout", "skipped", "error"}

\* C7 amended: every returned outcome carries one of the four tags or no tag
\* (None), and it carries no tag exactly when one of the steps
\* enter_guest_details .. send_payment_request returned false.
C7_TagIsOneOfFourOrNone ==
    HasReturned =>
      /\ ret.payment_status \in {"success", "timeout", "skipped", "error", None}
      /\ ret.payment_status = None <=>
           /\ Len(calls) \in 2..6
           /\ ~calls[Len(calls)].ok

C7_Witness ==
    /\ HasReturned
    /\ ret.payment_status = None
    /\ Len(calls) = 3

WaitDone == wpc = "done" /\ wret.status # "error"

\* C8: a success indicator that appears at elapsed t < T and stays makes the
\* loop exit confirmed no later than t + I, for every t in [0, T); stated
\* for checks that take no time and sleeps that are exact.
C8_IndicatorBeforeTConfirms ==
    (WaitDone /\ ideal /\ appearedAt # Never
       /\ appearedAt - start_time < Secs(PAYMENT_WAIT_TIMEOUT)) =>
        /\ wret.status = "success"
        /\ exitAt <= appearedAt + Secs(PAYMENT_CHECK_INTERVAL)

CellText(cell) == IF cell.t = "nan" THEN <<>> ELSE PyStr(cell)

\* the row's status is empty or 'pending' after trimming and lower-casing
StatusEmptyOrPending(columns, row) ==
    \/ "Status" \notin columns
    \/ Strip(Lower(CellText(row.Status))) \in {<<>>, <<"p", "e", "n", "d", "i", "n", "g">>}

\* the row's hotel id is not empty
HasHotelId(columns, row) ==
    "Hotel ID" \in columns /\ Strip(CellText(row.HotelID)) # <<>>

\* the row's city code is not empty
HasCityCode(row) == Strip(CellText(row.CityCode)) # <<>>

\* the returned list has a booking for the sheet row of DataFrame index idx
Included(list, idx) == \E j \in 1..Len(list) : list[j].row_number = idx + 2

GotPending == pc = "got_pending_bookings"

\* C14: get_pending_bookings returns a booking for a row if and only if the
\* row's status is empty or 'pending' (trimmed, lower-cased) and its hotel id
\* and city code are both non-empty.
C14_IncludedIffPendingAndComplete ==
    [][GetPendingBookings =>
         \A k \in 1..Len(df) :
           Included(bookings', k - 1) <=>
             /\ StatusEmptyOrPending(cols, df[k])
             /\ HasHotelId(cols, df[k])
             /\ HasCityCode(df[k])]_vars

\* C15: every returned booking has a non-empty hotel_id and
\* city_code and non-negative nights, adults, children and rooms.
C15_BookingRequestInvariant ==
    GotPending =>
      \A j \in 1..Len(bookings) :
        /\ bookings[j].hotel_id # <<>>
        /\ bookings[j].city_code # <<>>
        /\ bookings[j].nights >= 0
        /\ bookings[j].adults >= 0
        /\ bookings[j].children >= 0
        /\ bookings[j].rooms >= 0

\* C16: a row with Status empty, Hotel ID '12345' and City Code 'del' is
\* included, and the city_code of every returned booking is the trimmed,
\* upper-cased text of the row's City Code cell.
C16_CityCodeNormalised ==
    [][GetPendingBookings =>
         /\ \A k \in 1..Len(df) :
              (/\ cols = {"Status", "Hotel ID"}
               /\ df[k].Status = NaNCell
               /\ df[k].HotelID = StrCell(<<"1", "2", "3", "4", "5">>)
               /\ df[k].CityCode = StrCell(<<"d", "e", "l">>)
               /\ df[k].Nights = IntCell(2))
                 => \E j \in 1..Len(bookings') :
                      /\ bookings'[j].row_number = k + 1
                      /\ bookings'[j].city_code = <<"D", "E", "L">>
         /\ \A j \in 1..Len(bookings') :
              bookings'[j].city_code =
                Upper(Strip(CellText(df[bookings'[j].row_number - 1].CityCode)))]_vars

\* days from 0001-01-01 to the date
DaysBeforeYear(y) ==
    365 * (y - 1) + ((y - 1) \div 4) - ((y - 1) \div 100) + ((y - 1) \div 400)

RECURSIVE DaysBeforeMonth(_, _)
DaysBeforeMonth(y, m) ==
    IF m = 1 THEN 0 ELSE DaysBeforeMonth(y, m - 1) + DaysInMonth(y, m - 1)

Ordinal(dt) == DaysBeforeYear(dt.y) + DaysBeforeMonth(dt.y, dt.m) + dt.d

\* C18: load_booking_from_dict sets check-in to the run date plus
\* checkin_days days and check-out to check-in plus nights days, so check-out
\* is strictly later than check-in whenever nights >= 1; Config holds both
\* dates as MMDDYYYY.
C18_DatesFromOffsets ==
    loaded # NotLoaded =>
      /\ Ordinal(loaded.checkin) = Ordinal(today) + loaded.checkin_days
      /\ Ordinal(loaded.checkout) = Ordinal(loaded.checkin) + loaded.nights
      /\ loaded.nights >= 1 => Ordinal(loaded.checkout) > Ordinal(loaded.checkin)
      /\ loaded.checkin.m \in 1..12
      /\ loaded.checkin.d \in 1..DaysInMonth(loaded.checkin.y, loaded.checkin.m)
      /\ loaded.checkout.m \in 1..12
      /\ loaded.checkout.d \in 1..DaysInMonth(loaded.checkout.y, loaded.checkout.m)
      /\ Config.CHECKIN_DATE = StrfMDY(loaded.checkin)
      /\ Config.CHECKOUT_DATE = StrfMDY(loaded.checkout)

C18_Witness ==
    /\ today = [y |-> 2026, m |-> 12, d |-> 30]
    /\ loaded.checkin_days = 3
    /\ loaded.nights = 2
    /\ loaded.checkin = [y |-> 2027, m |-> 1, d |-> 2]
    /\ loaded.checkout = [y |-> 2027, m |-> 1, d |-> 4]
    /\ Config.CHECKOUT_DATE = <<"0", "1", "0", "4", "2", "0", "2", "7">>

\* C19: two build_hotel_url calls with identical hotel id, dates, city,
\* adults, children and rooms produce an identical URL, whatever bookings
\* were loaded in between.
C19_UrlIsFunctionOfInputs ==
    \A a, b \in 1..Len(built) :
      built[a].in = built[b].in => built[a].url = built[b].url

C19_Witness ==
    /\ Len(built) >= 2
    /\ built[1].in = built[2].in
    /\ built[1].guest # built[2].guest
    /\ built[1].url = built[2].url

\* the value of a query parameter of a URL
Param(url, key) ==
    url.query[CHOOSE k \in 1..Len(url.query) : url.query[k].k = key].v

\* "{a}e{b}e" and "{a}e{b}e{c}e"
Qualifier2(a, b) == IntToStr(a) \o <<"e">> \o IntToStr(b) \o <<"e">>
Qualifier3(a, b, c) == IntToStr(a) \o <<"e">> \o Qualifier2(b, c)

\* C20 as stated: the room qualifier in the URL is
\* '{rooms}e{adults}e{children}e'.
C20_RoomQualifierHasRooms ==
    \A k \in 1..Len(built) :
      Param(built[k].url, "roomStayQualifier")
        = Qualifier3(built[k].in.rooms, built[k].in.adults, built[k].in.children)

\* C20 amended: the URL's roomStayQualifier is '{adults}e{children}e'
\* (no room count) and its rsc parameter is '{rooms}e{adults}e{children}e'.
C20_RoomQualifierAndRsc ==
    \A k \in 1..Len(built) :
      /\ Param(built[k].url, "roomStayQualifier")
           = Qualifier2(built[k].in.adults, built[k].in.children)
      /\ Param(built[k].url, "rsc")
           = Qualifier3(built[k].in.rooms, built[k].in.adults, built[k].in.children)

C20_Witness ==
    /\ Len(built) >= 1
    /\ built[1].in.rooms = 2 /\ built[1].in.adults = 3 /\ built[1].in.children = 1
    /\ Param(built[1].url, "roomStayQualifier") = <<"3", "e", "1", "e">>
    /\ Param(built[1].url, "rsc") = <<"2", "e", "3", "e", "1", "e">>

\* C11: after a wait that timed out, process_single_booking runs
\* close_popup_if_present, extract_booking_id and extract_price and returns
\* success = true, 'Completed - Verify payment manually', 'timeout'.
C11_TimeoutIsNotFailure ==
    (Returned /\ payment_status = "timeout") =>
        /\ ret.success = TRUE
        /\ ret.message = "Completed - Verify payment manually"
        /\ ret.payment_status = "timeout"
        /\ Len(calls) = 10
        /\ calls[8].step = "close_popup_if_present"
        /\ calls[9].step = "extract_booking_id"
        /\ calls[10].step = "extract_price"

\* what process_single_booking and main do after a wait that returned 'error'
ErrorShortCircuits ==
    /\ (Returned /\ payment_status = "error") =>
          /\ Len(calls) = 7
          /\ shots = <<>>
          /\ ret.success = FALSE
          /\ ret.payment_status = "error"
          /\ ret.booking_id = None
          /\ ret.price = None
    /\ (pc = "update" /\ payment_status = "error") => status = "Failed"

\* C12 as stated: every exception raised inside the wait loop makes
\* wait_for_payment_status return 'error'; after 'error' none of the steps
\* 9-11 runs, the outcome is success = false without booking id and price,
\* and main derives 'Failed'.
C12_LoopExceptionIsError ==
    /\ (wpc = "done" /\ raisedIn # None) => wret.status = "error"
    /\ ErrorShortCircuits

\* C12 amended: the wait returns 'error' exactly when an exception was raised
\* in the loop outside the indicator probes (reading page_source); an
\* exception raised while probing an indicator is swallowed and the wait
\* returns 'success' or 'timeout'; after 'error' none of the steps 9-11
\* runs, the outcome is success = false without booking id and price, and
\* main derives 'Failed'.
C12_SourceExceptionIsError ==
    /\ wpc = "done" => (wret.status = "error" <=> raisedIn = "source")
    /\ (wpc = "done" /\ raisedIn = "scan") => wret.status \in {"success", "timeout"}
    /\ ErrorShortCircuits

C12_Witness ==
    /\ pc = "update"
    /\ payment_status = "error"
    /\ Len(calls) = 7
    /\ status = "Failed"

\* C13: main processes every booking of the worklist in order whatever the
\* outcome of each, and the results list ends with exactly one entry per
\* booking, in worklist order.
C13_AllBookingsProcessedInOrder ==
    /\ Len(results) <= Len(bookings)
    /\ \A k \in 1..Len(results) : results[k].row = bookings[k].row_number
    /\ pc = "for" => Len(results) = i
    /\ pc \in {"main", "setup_driver", "returned", "raised"} => results = <<>>
    /\ pc \notin {"main", "setup_driver", "returned", "raised", "for", "done"} =>
          Len(results) = i - 1
    /\ pc = "done" => Len(results) = Len(bookings)

C13_Witness ==
    /\ pc = "done"
    /\ Len(results) = NumBookings
    /\ results[1].payment_status = "error"
    /\ results[1].message = "str(e)"
    /\ results[2].payment_status = "skipped"

\* the sheet updates that target a row, in call order
WritesOf(row) == SelectSeq(writes, LAMBDA w : w.row = row)

\* C17: for each processed booking main writes Status for its row exactly
\* once and before any other column of the row, Booking_id exactly when the
\* outcome has a non-empty booking id, Price exactly when it has a non-empty
\* price; no write targets another row.
C17_WritesPerBooking ==
    /\ \A k \in 1..Len(results) :
         LET w == WritesOf(results[k].row)
         IN  /\ Len(w) >= 1
             /\ w[1] = [col |-> "Status", row |-> results[k].row,
                        value |-> results[k].status]
             /\ Cardinality({j \in 1..Len(w) : w[j].col = "Status"}) = 1
             /\ Cardinality({j \in 1..Len(w) : w[j].col = "Booking_id"})
                  = IF Truthy(results[k].booking_id) THEN 1 ELSE 0
             /\ Cardinality({j \in 1..Len(w) : w[j].col = "Price"})
                  = IF Truthy(results[k].price) THEN 1 ELSE 0
             /\ \A j \in 1..Len(w) :
                  /\ w[j].col \in {"Status", "Booking_id", "Price"}
                  /\ w[j].col = "Booking_id" => w[j].value = results[k].booking_id
                  /\ w[j].col = "Price" => w[j].value = results[k].price
    /\ \A j \in 1..Len(writes) :
         \E k \in 1..Len(results) : results[k].row = writes[j].row
    /\ \A a, b \in 1..Len(writes) : a < b => writes[a].row <= writes[b].row

C17_Witness ==
    /\ Len(results) = 2
    /\ Truthy(results[1].booking_id) /\ ~Truthy(results[1].price)
    /\ ~Truthy(results[2].booking_id) /\ Truthy(results[2].price)
    /\ Len(writes) = 4
    /\ writes[2].col = "Booking_id" /\ writes[2].row = 2
    /\ writes[4].col = "Price" /\ writes[4].row = 4

\* C30: the browser session is created at most once per run, and in every
\* run that created it the session has been quit once the run has ended.
RunEnded == pc \in {"done", "returned", "raised"}

C30_SessionCreatedOnceAndQuit ==
    /\ sessions <= 1
    /\ (RunEnded /\ sessions = 1) => driver = "quit"

\* the step of the current booking that returned false or raised
FailedStep ==
    IF Len(calls) > 0 /\ ~calls[Len(calls)].ok
      THEN calls[Len(calls)].step ELSE None

\* C27: when click_pay_now returns false the row's status is 'Failed', never
\* 'Skipped'; a row gets status 'Skipped' only from a false click_book_now.
C27_PayNowFailureIsFailed ==
    pc = "update" =>
        /\ FailedStep = "click_pay_now" => status = "Failed"
        /\ status = "Skipped" => FailedStep = "click_book_now"

C27_Witness ==
    /\ pc = "update"
    /\ FailedStep = "click_pay_now"
    /\ Len(calls) = 3
    /\ status = "Failed"

\* extract_booking_id has been executed for the current booking
ExtractionRan == Len(calls) >= 9 /\ calls[9].step = "extract_booking_id"

\* the label for the extracted id, or the fixed not-found label
IdOrNotFoundLabel ==
    IF Truthy(booking_id) THEN "booking_id_{booking_id}" ELSE "booking_id_not_found"

C28_PopupNeverFatal ==
    Len(calls) >= 8 =>
        /\ calls[8].step = "close_popup_if_present"
        /\ Len(calls) = 8 => (pc = "extract_booking_id" /\ ret = NoRet)
        /\ Len(calls) >= 9 => calls[9].step = "extract_booking_id"
        /\ (Len(calls) = 10 /\ Returned) =>
              /\ calls[10].step = "extract_price"
              /\ ret = FlowReturn(payment_status, booking_id, price)
              /\ ret.success

C28_Witness ==
    /\ Returned
    /\ Len(calls) = 10
    /\ ~calls[8].ok
    /\ calls[8].raised
    /\ ret.success

\* C22: BasePage.click returns true or false in every case and never raises.
C22_ClickReturnsBoolean ==
    call.fn = "click" => fret \in {"True", "False"}

\* the attempts of the wait helper that ended in a timeout or a stale element
Exhausted(k) == trace[k].out \in {"timeout", "stale"}

\* C23: wait_for_visible and wait_for_clickable make at most `retries`
\* attempts, return the element as soon as an attempt yields it, and return
\* None, not an error, when every attempt ended in a timeout or a stale
\* element.
C23_WaitBoundedRetries ==
    call.fn \in {"wait_for_visible", "wait_for_clickable"} =>
        /\ Len(trace) <= call.retries
        /\ \A k \in 1..(Len(trace) - 1) : Exhausted(k)
        /\ (\E k \in 1..Len(trace) : trace[k].out = "element") =>
              (fret = "element" /\ trace[Len(trace)].out = "element")
        /\ (\A k \in 1..Len(trace) : Exhausted(k)) =>
              (fret = None /\ Len(trace) = call.retries)
        /\ fret = None => \A k \in 1..Len(trace) : Exhausted(k)

C23_Witness ==
    /\ call.fn = "wait_for_clickable"
    /\ call.retries = MaxRetries
    /\ Len(trace) = MaxRetries
    /\ \A k \in 1..Len(trace) : Exhausted(k)
    /\ trace[1].out = "stale"
    /\ fret = None

\* C26: enter_guest_details attempts first name, last name, email and mobile
\* in that order whether or not the earlier ones could be typed, and returns
\* true unless an exception occurs, even when no field was filled.
C26_GuestFieldsAllAttempted ==
    call.fn = "enter_guest_details" =>
        /\ Len(trace) <= 4
        /\ \A k \in 1..Len(trace) :
              trace[k].op = <<"FIRST_NAME", "LAST_NAME", "EMAIL", "MOBILE">>[k]
        /\ \A k \in 1..(Len(trace) - 1) : trace[k].out \in {"True", "False"}
        /\ IF \E k \in 1..Len(trace) : trace[k].out = "raised"
             THEN fret = "False"
             ELSE Len(trace) = 4 /\ fret = "True"

C26_Witness ==
    /\ call.fn = "enter_guest_details"
    /\ Len(trace) = 4
    /\ \A k \in 1..4 : trace[k].out = "False"
    /\ fret = "True"

\* the strategies enter_upi_id has tried
TiersTried == SelectSeq(trace, LAMBDA e : e.op # "screenshot")

\* C29: in enter_upi_id the strategies are tried in the order data-testid,
\* name, id, generic input, script injection; the first one that enters the
\* handle ends the step, so the script injection runs only after the four
\* before it have failed.
C29_ScriptTierLast ==
    call.fn = "enter_upi_id" =>
        /\ Len(TiersTried) \in 1..5
        /\ \A k \in 1..Len(TiersTried) :
              TiersTried[k].op = <<"testid", "name", "id", "generic", "script">>[k]
        /\ \A k \in 1..(Len(TiersTried) - 1) : TiersTried[k].out = "failed"
        /\ (\E k \in 1..Len(TiersTried) : TiersTried[k].op = "script") =>
              \A t \in {"testid", "name", "id", "generic"} :
                 \E k \in 1..Len(TiersTried) :
                    TiersTried[k].op = t /\ TiersTried[k].out = "failed"
        /\ fret = "True" <=> TiersTried[Len(TiersTried)].out = "entered"

C29_Witness ==
    /\ call.fn = "enter_upi_id"
    /\ Len(TiersTried) = 5
    /\ TiersTried[5].op = "script"
    /\ TiersTried[5].out = "entered"
    /\ fret = "True"

\* the id of the first tier that matches in a call of extract_booking_id:
\* CSS selector, XPath selector, regex patterns, class sweep
FirstMatch ==
    LET Shown(in) == ~in.raised /\ in.text # <<>> /\ HasDigit(in.text) IN
      IF Shown(call.css) THEN call.css.text
      ELSE IF Shown(call.xpath) THEN call.xpath.text
      ELSE IF ~call.source.raised /\ call.source.id.found
        THEN call.source.id.text
      ELSE IF Shown(call.sweep) /\ Len(call.sweep.text) >= 6
        THEN call.sweep.text
      ELSE <<>>

ValidRow == 0 <= call.row_number - 2 /\ call.row_number - 2 < Len(df)

\* C21: without a worksheet handle, update_status, update_booking_id and
\* update_price for a valid row store the value in the in-memory table,
\* attempt no remote write, and return True.
C21_LocalOnlyWithoutWorksheet ==
    (/\ call.fn \in {"update_status", "update_booking_id", "update_price"}
     /\ worksheet = None
     /\ ValidRow) =>
        /\ fret = "True"
        /\ trace = <<>>
        /\ call.fn = "update_status" =>
              df[call.row_number - 1].Status = StrCell(call.value)
        /\ call.fn = "update_booking_id" =>
              df[call.row_number - 1].Booking_id = StrCell(call.value)
        /\ call.fn = "update_price" =>
              df[call.row_number - 1].Price = StrCell(call.value)

C21_Witness ==
    /\ call.fn = "update_booking_id"
    /\ worksheet = None
    /\ ValidRow
    /\ Len(df) = 2
    /\ call.row_number = 3
    /\ df[2].Booking_id = StrCell(call.value)
    /\ df[1].Booking_id = StrCell(<<>>)
    /\ trace = <<>>
    /\ fret = "True"

\* ------------------------------------------------------------------------
\* The ways a run of main ends
\* ------------------------------------------------------------------------
\* no sheet URL was typed and the environment holds none
NoSheetUrl == answers.sheet_url = <<>>

\* the confirmation prompt was reached and not answered with yes or y
Declined ==
    /\ "confirm" \in DOMAIN answers
    /\ answers.confirm \notin {<<"y", "e", "s">>, <<"y">>}

\* C31 as stated: a run of main that has ended has either processed its
\* bookings or returned for want of a sheet URL
C31_EndsOnlyOnCompletionOrMissingUrl ==
    RunEnded => pc = "done" \/ NoSheetUrl

\* C31: a run of main that has ended has processed every booking of the
\* worklist, or returned before the loop because no sheet URL was given, the
\* worklist was empty or the confirmation was declined, or was left by an
\* exception of the browser setup; once the loop has started only its
\* exhaustion ends the run
C31_EndsOnCompletionOrEarlyReturn ==
    /\ pc = "done" => Len(results) = Len(bookings) /\ Len(bookings) > 0
    /\ pc = "returned" =>
         /\ NoSheetUrl \/ Len(bookings) = 0 \/ Declined
         /\ results = <<>> /\ i = 0
    /\ pc = "raised" => results = <<>> /\ i = 0 /\ ~NoSheetUrl /\ ~Declined

\* a run returned because the confirmation was declined
C31_Witness ==
    pc = "returned" /\ Declined /\ ~NoSheetUrl /\ Len(bookings) > 0

\* a browser session exists or existed, a page was opened or a page object
\* was called
BrowserUsed ==
    \/ driver # None \/ sessions > 0
    \/ built # <<>> \/ calls # <<>> \/ results # <<>>

\* the payment request of the current booking was sent
PaymentRequested ==
    \E k \in 1..Len(calls) : calls[k].step = "send_payment_request"

\* C37: a browser session, an opened page or a sent payment request implies
\* a sheet URL, a non-empty worklist and a confirmation of yes or y; a run
\* that returned early has created no session and touched no page
C37_NoBrowserWithoutConfirmation ==
    /\ BrowserUsed \/ pc \notin {"main", "returned"} =>
         /\ Len(bookings) > 0
         /\ answers.sheet_url # <<>>
         /\ answers.confirm \in {<<"y", "e", "s">>, <<"y">>}
    /\ pc = "returned" => ~BrowserUsed /\ summary = NoSummary

\* a payment request was sent in a run confirmed with y
C37_Witness ==
    /\ PaymentRequested /\ sessions = 1
    /\ answers.confirm = <<"y">>

\* number of results whose status label is one of labels
Labelled(labels) ==
    Cardinality({k \in 1..Len(results) : results[k].status \in labels})

\* C39: in the final summary successful + skipped + failed is the number of
\* processed bookings, and the results labelled Completed or Pending
\* Verification are as many as the successful count
C39_SummaryCountsPartitionResults ==
    pc = "done" =>
      /\ summary.total = Len(results) /\ summary.total = Len(bookings)
      /\ summary.successful + summary.skipped + summary.failed = summary.total
      /\ Labelled({"Completed", "Pending Verification"}) = summary.successful
      /\ Labelled({"Skipped"}) = summary.skipped
      /\ Labelled({"Failed"}) = summary.failed

\* a summary over one successful and one skipped booking
C39_Witness ==
    /\ pc = "done"
    /\ summary.successful = 1 /\ summary.skipped = 1 /\ summary.failed = 0

\* the sheet updates main requested for a row, other than its status
DataWrites(row) ==
    {k \in 1..Len(writes) : writes[k].row = row /\ writes[k].col # "Status"}

\* C33: a return of process_single_booking without success carries neither
\* booking id nor price, and a row labelled Failed or Skipped receives no
\* Booking_id and no Price update
C33_NoIdOrPriceWithoutSuccess ==
    /\ pc \in {"classify", "update"} /\ ~ret.success =>
         ret.booking_id = None /\ ret.price = None
    /\ \A k \in 1..Len(results) :
         /\ ~results[k].success =>
              /\ results[k].booking_id = None /\ results[k].price = None
              /\ results[k].status \in {"Failed", "Skipped"}
         /\ results[k].status \in {"Failed", "Skipped"} =>
              DataWrites(results[k].row) = {}

\* a booking failed on an error of the payment wait, after a booking whose
\* id and price were written
C33_Witness ==
    /\ Len(results) = 2
    /\ DataWrites(results[1].row) # {}
    /\ ~results[2].success /\ results[2].status = "Failed"
    /\ results[2].payment_status = "error"
    /\ results[2].message = "Error - Error while waiting: str(e)"

\* the entries of the trace of a click that are script clicks
ScriptClicks == {k \in 1..Len(trace) : trace[k].op = "execute_script"}

\* before entry k a native click on the element the clickable wait returned
\* has raised
NativeFailedBefore(k) ==
    \E j \in 2..(k - 1) :
        /\ trace[j] = [op |-> "click", out |-> "raised"]
        /\ trace[j - 1] = [op |-> "wait_for_clickable", out |-> "element"]

\* every attempt of the clickable wait timed out or met a stale element
WaitUnresolved ==
    \A j \in 1..DEFAULT_RETRIES :
        /\ trace[j].op = "wait_for_clickable"
        /\ trace[j].out \in {"timeout", "stale"}

\* C32 as stated: a script click of BasePage.click comes only after a native
\* click on the element the clickable wait resolved has failed
C32_ScriptClickOnlyAfterNativeFailure ==
    call.fn = "click" => \A k \in ScriptClicks : NativeFailedBefore(k)

\* C32: BasePage.click makes at most one script click, as its last
\* interaction, on the element find has just returned, and only when no
\* native click succeeded: the native click raised, or the clickable wait
\* returned None so that no native click was attempted
C32_ScriptClickOnlyWithoutNativeSuccess ==
    call.fn = "click" =>
        /\ Cardinality(ScriptClicks) <= 1
        /\ \A k \in ScriptClicks :
             /\ k = Len(trace) /\ k > 1
             /\ trace[k - 1] = [op |-> "find", out |-> "element"]
             /\ \A j \in 1..Len(trace) : trace[j] # [op |-> "click", out |-> "ok"]
             /\ NativeFailedBefore(k) \/ WaitUnresolved
             /\ fret = IF trace[k].out = "ok" THEN "True" ELSE "False"

\* the clickable wait resolved nothing and the element find returned was
\* script-clicked
C32_Witness ==
    /\ call.fn = "click" /\ fret = "True"
    /\ ScriptClicks # {} /\ WaitUnresolved
    /\ \A j \in 1..Len(trace) : trace[j].op # "click"

\* an update function is called with a row number outside the frame
InvalidRowUpdate ==
    /\ call.fn = None
    /\ call'.fn \in DOMAIN UpdateColumn
    /\ ~(0 <= call'.row_number - 2 /\ call'.row_number - 2 < Len(df))

\* C38: update_status, update_booking_id and update_price called with a row
\* number outside [2, number of rows + 1] return False, make no remote write
\* and leave the in-memory table as it was
C38_InvalidRowChangesNothing ==
    [][InvalidRowUpdate =>
         /\ fret' = "False" /\ trace' = <<>>
         /\ df' = df /\ cols' = cols]_vars

\* ------------------------------------------------------------------------
\* Row numbers between get_pending_bookings and the update functions
\* ------------------------------------------------------------------------
\* an update function is called with the row number of the k-th booking of
\* the worklist
UpdatesBooking(k) ==
    /\ pc = "got_pending_bookings"
    /\ call.fn = None
    /\ call'.fn \in DOMAIN UpdateColumn
    /\ call'.row_number = bookings[k].row_number

\* the row at position r of the table is the pending row booking b was
\* built from
ReadFrom(b, r) ==
    /\ InPendingFrame(cols, df[r])
    /\ b.hotel_id = HotelIdText(cols, df[r])
    /\ b.city_code = Upper(Strip(PyStr(df[r].CityCode)))
    /\ b.nights = PyInt(df[r].Nights).v

\* C34: an update called with the row number of a booking writes its value
\* into the table row that booking was read from and into no other row, also
\* when rows before it were filtered out
C34_RowNumberAddressesSourceRow ==
    [][\A k \in 1..Len(bookings) : UpdatesBooking(k) =>
         LET r == call'.row_number - 1
             col == UpdateColumn[call'.fn]
         IN  /\ r \in 1..Len(df)
             /\ ReadFrom(bookings[k], r)
             /\ fret' = "True"
             /\ df'[r][col] = StrCell(call'.value)
             /\ \A q \in 1..Len(df) : \A c \in DOMAIN df[q] :
                  q # r \/ c # col =>
                    df'[q][c] = IF c = col /\ col \notin cols
                                  THEN StrCell(<<>>) ELSE df[q][c]]_vars

\* the only pending row is the second one and its status was updated
C34_Witness ==
    /\ pc = "got_pending_bookings"
    /\ call.fn = "update_status"
    /\ Len(df) = 2 /\ Len(bookings) = 1
    /\ bookings[1].row_number = 3 /\ call.row_number = 3
    /\ df[1].Status = StrCell(<<"C", "o", "m", "p", "l", "e", "t", "e", "d">>)
    /\ df[2].Status = StrCell(<<"F", "a", "i", "l", "e", "d">>)
    /\ df[1].Nights # df[2].Nights

\* C35: after update_status has written one of the four labels for a row, a
\* later get_pending_bookings on the same table does not return that row
C35_WrittenRowNotPendingAgain ==
    (/\ pc = "got_pending_again"
     /\ ValidRow
     /\ call.value \in UpdateValues) =>
        /\ \A k \in 1..Len(bookings) : bookings[k].row_number # call.row_number
        /\ ~StatusIsPending(df[call.row_number - 1].Status)

\* a pending row was labelled Pending Verification and the table read again
C35_Witness ==
    /\ pc = "got_pending_again"
    /\ ValidRow
    /\ call.value = <<"P", "e", "n", "d", "i", "n", "g", " ", "V", "e", "r", "i",
                      "f", "i", "c", "a", "t", "i", "o", "n">>
    /\ call.row_number = 2 /\ Len(df) = 2
    /\ Len(bookings) = 1 /\ bookings[1].row_number = 3

\* C36: after load_booking_from_dict(b) every per-booking attribute of Config
\* is the value computed from b and the run date, whatever was loaded before
C36_ConfigDeterminedByBooking ==
    loaded # NotLoaded =>
      LET b == loaded.booking
          checkin == AddDays(today, b.checkin_days)
      IN  /\ Config.HOTEL_ID = b.hotel_id
          /\ Config.CITY_CODE = b.city_code
          /\ Config.CHECKIN_DATE = StrfMDY(checkin)
          /\ Config.CHECKOUT_DATE = StrfMDY(AddDays(checkin, b.nights))
          /\ Config.ADULTS = b.adults
          /\ Config.CHILDREN = b.children
          /\ Config.ROOMS = b.rooms
          /\ Config.GUEST_FIRST_NAME = b.first_name
          /\ Config.GUEST_LAST_NAME = b.last_name
          /\ Config.GUEST_EMAIL = b.email
          /\ Config.GUEST_MOBILE = b.mobile
          /\ Config.UPI_ID = b.upi_id
          /\ DOMAIN Config = DOMAIN ConfigNone

\* a booking was loaded after a URL was built for a booking with another
\* guest, another stay and another occupancy
C36_Witness ==
    /\ Len(built) = 1
    /\ built[1].guest = <<"A">> /\ loaded.booking.first_name = <<"B">>
    /\ built[1].in.adults # loaded.booking.adults
    /\ built[1].in.checkout # Config.CHECKOUT_DATE
    /\ hotel_url # BuildUrl(Config)

====
